---- MODULE Spec2Model ----
(***************************************************************************)
(* The background polling and snapshot-scanning orchestrators of           *)
(* proto-tracker (src/api/services/background_poller.py,                   *)
(* src/api/services/background_scanner.py) with the persistence and        *)
(* collaborator calls they make (src/api/crud.py, src/api/main.py,         *)
(* src/api/services/github_service.py, notification_service.py).           *)
(*                                                                         *)
(* One asyncio event loop runs everything: an action of this module is the *)
(* code a coroutine executes between two suspension points.                *)
(***************************************************************************)
EXTENDS Integers, Sequences, FiniteSets, TLC

\* ------------------------------------------------------------------ bounds
MaxTasks == 2
MaxManual == 1
MaxCycles == 2
MaxCalls == 3
MaxClients == 2
MaxDirs == 2
MaxScans == 3
MaxWords == 5
MaxTracked == 101

\* ------------------------------------------------------- program constants
max_ai_analyses == 10
SevenDays == 7
ThirtyDays == 30
MinNotesLen == 10
MaxManualNotesLen == 5000
GetClientsLimit == 100

\* --------------------------------------------------------------- utilities
Min(a, b) == IF a < b THEN a ELSE b

Range(s) == {s[i] : i \in DOMAIN s}

RECURSIVE SeqOfSet(_)
SeqOfSet(S) == IF S = {} THEN <<>>
               ELSE LET x == CHOOSE y \in S : \A z \in S : y <= z
                    IN <<x>> \o SeqOfSet(S \ {x})

\* loop tasks and manual poll_now() calls share one index space of cycle runners
Tasks == 1..MaxTasks
Manuals == (MaxTasks + 1)..(MaxTasks + MaxManual)
Runners == Tasks \cup Manuals

VARIABLES
    poller,            \* background_poller: [is_running, task, is_manual_poll, github_service]
    ptasks,            \* the polling-loop tasks: [Tasks -> [pc, cancel, at]]
    pstops,            \* stop() calls suspended in "await self.task": [task, clean]
    scanner,           \* background_scanner: [is_running, task]
    stasks,            \* the scanning-loop tasks ever created
    sstops,            \* scanner stop() calls suspended in "await self.task"
    github_config,     \* the GitHubConfig row: [exists, api_key, poller_enabled, last_poll_time]
    system_config,     \* the SystemConfig row: [exists, auto_scan_enabled]
    s3_config,         \* the S3Config row: [exists, bucket_name]
    ai_config,         \* the AIConfig row
    notification_config,          \* the NotificationConfig row
    client_notification_settings, \* client id -> "absent" | "on" | "off"
    clients,           \* the clients table, in primary-key order
    github,            \* the remote repositories: repo -> [status, releases, tags]
    protocol_tracking, \* the ProtocolUpdates rows
    run,               \* per runner: the state of its _run_single_poll call
    session,           \* per runner: its SQLAlchemy session, "closed" | "ok" | "deactive"
    analyses,          \* updates whose analysis was triggered: [id, mode, called]
    sends,             \* notification sends attempted: [update, channel, url]
    handled,           \* updates whose processing by the cycle that created them completed
    protocols,         \* the protocols table
    bucket,            \* the object store: a set of version directories
    snapshot_indices,  \* the SnapshotIndex rows
    polls,             \* the finished poll cycles, in order of finishing
    scans,             \* the finished scans of one protocol, in order of finishing
    clock,             \* logical time: cycles begun so far
    ret,               \* the last control-surface call that returned or raised
    text,              \* release notes handed to detect_hard_fork: a sequence of words
    hard_fork_info,    \* what detect_hard_fork returned for them
    explicit           \* the updates whose analysis a request awaits

vars == <<poller, ptasks, pstops, scanner, stasks, sstops, github_config,
          system_config, s3_config, ai_config, notification_config,
          client_notification_settings, clients, github, protocol_tracking,
          run, session, analyses, sends, handled, polls, protocols, bucket,
          snapshot_indices, scans, clock, ret, text, hard_fork_info,
          explicit>>

aiVars == <<text, hard_fork_info, explicit>>
lifeVars == <<poller, ptasks, pstops, scanner, stasks, sstops>>
confVars == <<github_config, system_config, s3_config, ai_config,
              notification_config, client_notification_settings>>
pollData == <<clients, github>>
pollVars == <<protocol_tracking, run, session, analyses, sends, handled, polls>>
scanVars == <<protocols, bucket, snapshot_indices, scans>>

\* ------------------------------------------------------------ source client

\* github_service.py:18-33. A URL is its host and its path segments. Both
\* patterns are searched in order, and the first one also matches a host that
\* ends in "github.com", so owner and repo are the first two path segments.
StripGit(seg) == IF seg = "geth.git" THEN "geth" ELSE seg

parse_github_url(url) ==
    IF url.host \in {"github.com", "api.github.com"} /\ Len(url.path) >= 2
       /\ url.path[1] # "" /\ url.path[2] # ""
    THEN [ok |-> TRUE, owner |-> url.path[1], repo |-> StripGit(url.path[2])]
    ELSE [ok |-> FALSE, owner |-> "", repo |-> ""]

\* github_service.py:35-86. Every failure (network error, timeout, status other
\* than 200) is logged and answered with what was collected so far: nothing.
get_recent_releases(owner, repo) ==
    IF <<owner, repo>> \in DOMAIN github /\ github[<<owner, repo>>].status = "ok"
    THEN github[<<owner, repo>>].releases
    ELSE <<>>

\* github_service.py:88-163
get_recent_tags(owner, repo) ==
    IF <<owner, repo>> \in DOMAIN github /\ github[<<owner, repo>>].status = "ok"
    THEN github[<<owner, repo>>].tags
    ELSE <<>>

\* A date is its age in days when the cycle reads it; NoDate is a null date.
NoDate == -1
NoNotes == [len |-> 0, blank |-> 0]

\* str.lower() on the strings that occur
Lower(s) == CASE s = "Tags" -> "tags"
              [] s = "Releases" -> "releases"
              [] s = "Eth" -> "eth"
              [] s = "Sol" -> "sol"
              [] s = "Hard" -> "hard"
              [] s = "Block" -> "block"
              [] OTHER -> s

\* background_poller.py:209-211
should_fetch_releases(c) == c.repo_type = "" \/ Lower(c.repo_type) = "releases"
should_fetch_tags(c) == c.repo_type # "" /\ Lower(c.repo_type) = "tags"

\* background_poller.py:231-249: a tag as a release-like item
tag_item(tag) ==
    [tag_name |-> tag.name,
     published_at |-> IF tag.commit_date = NoDate THEN 0 ELSE tag.commit_date,
     body |-> NoNotes, draft |-> FALSE, prerelease |-> FALSE]

\* background_poller.py:216-250
items_to_process(c, repo_info) ==
    (IF should_fetch_releases(c)
     THEN get_recent_releases(repo_info.owner, repo_info.repo) ELSE <<>>)
    \o
    (IF should_fetch_tags(c)
     THEN LET tags == get_recent_tags(repo_info.owner, repo_info.repo)
          IN [i \in 1..Len(tags) |-> tag_item(tags[i])]
     ELSE <<>>)

\* crud.py:261-262 and background_poller.py:189-190
get_clients == SubSeq(clients, 1, Min(Len(clients), GetClientsLimit))

active_clients ==
    LET cs == get_clients
        keep == {i \in 1..Len(cs) : cs[i].github_url.host # ""}
        idx == SeqOfSet(keep)
    IN [k \in 1..Len(idx) |-> cs[idx[k]]]

\* background_poller.py:269
client_string(c) == IF c.client # "" THEN c.client
                    ELSE IF c.name # "" THEN c.name ELSE "Unknown"

\* a lookup that never finds the row
no_existing(cs, tag) == {}

\* crud.py:34-39
get_protocol_update_by_tag(cs, tag) ==
    {u \in protocol_tracking : u.client = cs /\ u.tag = tag}

\* crud.py:157-164 with models.py:32: the insert is flushed and committed at
\* once; a null date violates NOT NULL and the commit raises.
create_fails(it) == it.published_at = NoDate

new_update(c, it) ==
    [id |-> Cardinality(protocol_tracking) + 1,
     client |-> client_string(c), tag |-> it.tag_name,
     date |-> it.published_at, notes |-> it.body,
     is_prerelease |-> it.prerelease, client_id |-> c.id, ai_summary |-> ""]

\* background_poller.py:159-182: the date of a persisted row is a datetime
should_analyze_update(u) == u.date <= ThirtyDays

\* background_poller.py:368-392: the checks _analyze_update_with_ai makes
\* before it calls the inference backend
analysis_proceeds(u, is_manual_poll) ==
    /\ ai_config.exists /\ ai_config.ai_enabled /\ ai_config.auto_analyze_enabled
    /\ ai_config.api_key
    /\ u.notes.len > 0 /\ u.notes.len - u.notes.blank >= MinNotesLen
    /\ u.ai_summary = ""
    /\ ~(is_manual_poll /\ u.notes.len > MaxManualNotesLen)
    /\ ai_config.provider_valid

\* ----------------------------------------------------------- notifications
Webhooks == {"discord", "slack", "generic"}

\* background_poller.py:481-512: the multi-URL list, else the legacy URL
webhook_targets(ch) ==
    IF ~notification_config.enabled[ch] THEN {}
    ELSE IF notification_config.webhook_urls[ch] # <<>>
         THEN Range(notification_config.webhook_urls[ch])
         ELSE IF notification_config.webhook_url[ch] # ""
              THEN {notification_config.webhook_url[ch]}
              ELSE {}

\* background_poller.py:495-502
telegram_targets ==
    IF notification_config.enabled["telegram"]
       /\ notification_config.telegram_bot_token # ""
       /\ notification_config.telegram_chat_ids # <<>>
    THEN Range(notification_config.telegram_chat_ids)
    ELSE {}

\* the gates without the one on the age of the release
passes_any_age(c, u) ==
    /\ notification_config.exists /\ notification_config.notifications_enabled
    /\ ~(client_notification_settings[c.id] = "off")

\* background_poller.py:434-461: the gates before any send
notification_passes(c, u) ==
    /\ ~(u.date > SevenDays)
    /\ notification_config.exists /\ notification_config.notifications_enabled
    /\ ~(client_notification_settings[c.id] = "off")

\* background_poller.py:434-528 with notification_service.py:277-347: the
\* sends one call of _send_update_notification attempts
send_update_notification(c, u) ==
    IF notification_passes(c, u)
    THEN UNION {{[update |-> u.id, channel |-> ch, url |-> x] :
                    x \in webhook_targets(ch)} : ch \in Webhooks}
         \cup {[update |-> u.id, channel |-> "telegram", url |-> x] :
                    x \in telegram_targets}
    ELSE {}

\* ------------------------------------------------------------- the records
NoTask == 0

IdleRun == [pc |-> "idle", active |-> <<>>, ci |-> 0, items |-> <<>>, cur |-> 0,
            pending |-> {}, total_updates |-> 0, ai_analyses_queued |-> 0,
            errors |-> <<>>, began |-> 0, src |-> <<>>, created |-> {}]

\* what a control-surface call hands to its caller; n numbers the calls, clean
\* says that no other start() or configuration write ran during a stop()
Ret(svc, op, status, clean) ==
    [n |-> ret.n + 1, svc |-> svc, op |-> op, status |-> status, clean |-> clean,
     task |-> NoTask]

\* start() without its guard
never_running(service) == FALSE

\* background_poller.py:28, background_scanner.py:25: the guard of start()
already_running(service) == service.is_running

\* stop() that forgets the in-memory flag
still_running(service) == service

\* background_poller.py:59, background_scanner.py:51
stopped(service) == [service EXCEPT !.is_running = FALSE]

NotCreated == [pc |-> "none", cancel |-> FALSE, at |-> ""]
Created == [pc |-> "created", cancel |-> FALSE, at |-> ""]

\* the loop that an exception ends
crashed(task) == [task EXCEPT !.pc = "done"]
\* background_poller.py:152-155, background_scanner.py:116-119: an exception
\* of the iteration is logged and the loop sleeps the error delay
after_error(task) == [task EXCEPT !.pc = "backoff"]

\* the code between two suspension points runs alone on the event loop: while
\* a coroutine is inside such a stretch no other coroutine takes a step
SyncPcs == {"client", "items", "commit"}
Busy == \/ \E r \in Runners : run[r].pc \in SyncPcs
        \/ \E t \in Tasks : ptasks[t].pc = "top"

Quiet == ~Busy

\* start() that asks only for the configuration row
row_missing(config) == ~config.exists

\* background_poller.py:32-33 and 85-86: no GitHubConfig row, or an empty key
credential_missing(config) == ~config.exists \/ ~config.api_key

\* the loop that never looks at the persisted flag
never_disabled(config) == FALSE

\* background_poller.py:124: no GitHubConfig row, or the flag is off
poller_disabled(config) == ~config.exists \/ ~config.poller_enabled

\* asyncio.create_task: the next task object
FreeTasks(ts) == {t \in Tasks : ts[t].pc = "none"}
NewTask(ts) == CHOOSE t \in FreeTasks(ts) : \A u \in FreeTasks(ts) : t <= u

Unclean(stops) == {[s EXCEPT !.clean = FALSE] : s \in stops}

\* ------------------------------------------------- background_poller: calls

\* background_poller.py:26-48. fail: the database refuses the first statement.
PollerStart(fail) ==
    /\ Quiet /\ ret.n < MaxCalls /\ FreeTasks(ptasks) # {}
    /\ IF already_running(poller)
       THEN /\ ret' = Ret("poller", "start", "already_running", TRUE)
            /\ UNCHANGED <<poller, ptasks, pstops, github_config>>
       ELSE IF fail
       THEN /\ ret' = Ret("poller", "start", "raised", TRUE)
            /\ UNCHANGED <<poller, ptasks, pstops, github_config>>
       ELSE IF credential_missing(github_config)
       THEN /\ ret' = Ret("poller", "start", "error", TRUE)
            /\ UNCHANGED <<poller, ptasks, pstops, github_config>>
       ELSE /\ github_config' = [github_config EXCEPT !.poller_enabled = TRUE]
            /\ poller' = [poller EXCEPT !.github_service = TRUE,
                                        !.is_running = TRUE,
                                        !.task = NewTask(ptasks)]
            /\ ptasks' = [ptasks EXCEPT ![NewTask(ptasks)] = Created]
            /\ pstops' = Unclean(pstops)
            /\ ret' = Ret("poller", "start", "started", TRUE)
    /\ UNCHANGED <<scanner, stasks, sstops, system_config, s3_config, ai_config,
                   notification_config, client_notification_settings,
                   pollData, pollVars, scanVars, clock>>
    /\ UNCHANGED aiVars

\* background_poller.py:50-63: stop() up to "await self.task". Awaiting a task
\* that is already done does not suspend.
PollerStop(fail) ==
    /\ Quiet /\ ret.n < MaxCalls
    /\ IF ~poller.is_running
       THEN /\ ret' = Ret("poller", "stop", "already_stopped", TRUE)
            /\ UNCHANGED <<poller, ptasks, pstops, github_config>>
       ELSE IF fail \/ ~github_config.exists
       THEN /\ ret' = Ret("poller", "stop", "raised", TRUE)
            /\ UNCHANGED <<poller, ptasks, pstops, github_config>>
       ELSE /\ github_config' = [github_config EXCEPT !.poller_enabled = FALSE]
            /\ poller' = stopped(poller)
            /\ IF poller.task = NoTask \/ ptasks[poller.task].pc = "done"
               THEN /\ ret' = Ret("poller", "stop", "stopped", TRUE)
                    /\ UNCHANGED <<ptasks, pstops>>
               ELSE /\ ptasks' = [ptasks EXCEPT ![poller.task].cancel = TRUE]
                    /\ pstops' = pstops \cup {[task |-> poller.task, clean |-> TRUE]}
                    /\ UNCHANGED ret
    /\ UNCHANGED <<scanner, stasks, sstops, system_config, s3_config, ai_config,
                   notification_config, client_notification_settings,
                   pollData, pollVars, scanVars, clock>>
    /\ UNCHANGED aiVars

\* background_poller.py:63-68: the awaited task has ended, stop() returns
PollerStopReturn(s) ==
    /\ Quiet /\ s \in pstops /\ ptasks[s.task].pc = "done"
    /\ pstops' = pstops \ {s}
    /\ ret' = [Ret("poller", "stop", "stopped", s.clean) EXCEPT !.task = s.task]
    /\ UNCHANGED <<poller, ptasks, scanner, stasks, sstops, confVars,
                   pollData, pollVars, scanVars, clock>>
    /\ UNCHANGED aiVars

\* background_poller.py:70-80
PollerGetStatus(fail) ==
    /\ Quiet /\ ret.n < MaxCalls
    /\ ret' = Ret("poller", "status", IF fail THEN "raised" ELSE "ok", TRUE)
    /\ UNCHANGED <<lifeVars, confVars, pollData, pollVars, scanVars, clock>>
    /\ UNCHANGED aiVars

\* main.py:2094-2103 with crud.py:569-579: the row is replaced by a fresh one,
\* whose poller_enabled is the column default
CreateGithubConfig ==
    /\ Quiet /\ ret.n < MaxCalls
    /\ github_config' = [exists |-> TRUE, api_key |-> TRUE,
                         poller_enabled |-> FALSE, last_poll_time |-> 0]
    /\ pstops' = Unclean(pstops)
    /\ ret' = Ret("config", "create", "ok", TRUE)
    /\ UNCHANGED <<poller, ptasks, scanner, stasks, sstops, system_config,
                   s3_config, ai_config, notification_config,
                   client_notification_settings, pollData, pollVars, scanVars,
                   clock>>
    /\ UNCHANGED aiVars

\* main.py:2112-2121 with crud.py:581-594
UpdateGithubConfig(enabled) ==
    /\ Quiet /\ ret.n < MaxCalls
    /\ IF github_config.exists
       THEN /\ github_config' = [github_config EXCEPT !.poller_enabled = enabled]
            /\ pstops' = Unclean(pstops)
            /\ ret' = Ret("config", "update", "ok", TRUE)
       ELSE /\ ret' = Ret("config", "update", "raised", TRUE)
            /\ UNCHANGED <<github_config, pstops>>
    /\ UNCHANGED <<poller, ptasks, scanner, stasks, sstops, system_config,
                   s3_config, ai_config, notification_config,
                   client_notification_settings, pollData, pollVars, scanVars,
                   clock>>
    /\ UNCHANGED aiVars

\* --------------------------------------------- background_poller: the cycle

Origin(r) == IF r \in Tasks THEN "loop" ELSE "manual"

\* a loop task that was cancelled takes no further normal step: the
\* CancelledError is raised at the await it is suspended in
Resumable(r) == r \in Tasks => (ptasks[r].pc = "cycle" /\ ~ptasks[r].cancel)

\* background_poller.py:186-199: the head of _run_single_poll
StartedRun == 
    LET ac == active_clients
    IN [IdleRun EXCEPT !.pc = IF ac = <<>> THEN "commit" ELSE "client",
                       !.active = ac, !.ci = IF ac = <<>> THEN 0 ELSE 1,
                       !.began = clock + 1, !.src = github]

\* background_poller.py:199: the for loop moves on to the next client
NextClient(st) ==
    IF st.ci < Len(st.active)
    THEN [st EXCEPT !.pc = "client", !.ci = @ + 1, !.items = <<>>]
    ELSE [st EXCEPT !.pc = "commit", !.items = <<>>]

\* background_poller.py:321-324: the handler around one client
ClientError(st, kind) ==
    NextClient([st EXCEPT !.errors = Append(@, [client |-> st.active[st.ci].id,
                                                  kind |-> kind])])

\* background_poller.py:204-228: parse the URL, decide what to fetch, and
\* suspend in the fetch
ClientStep(r) ==
    /\ run[r].pc = "client"
    /\ LET st == run[r]
           c == st.active[st.ci]
           repo_info == parse_github_url(c.github_url)
       IN run' = [run EXCEPT ![r] =
              IF ~repo_info.ok
              THEN NextClient([st EXCEPT !.errors =
                       Append(@, [client |-> c.id, kind |-> "invalid_url"])])
              ELSE IF should_fetch_releases(c) \/ should_fetch_tags(c)
                   THEN [st EXCEPT !.pc = "fetch"]
                   ELSE [st EXCEPT !.pc = "items", !.items = <<>>]]
    /\ UNCHANGED <<lifeVars, confVars, pollData, protocol_tracking, session,
                   analyses, sends, handled, polls, scanVars, clock, ret>>
    /\ UNCHANGED aiVars

\* background_poller.py:218-252: the fetch answers
FetchStep(r) ==
    /\ Quiet /\ run[r].pc = "fetch" /\ Resumable(r)
    /\ LET st == run[r]
           c == st.active[st.ci]
       IN run' = [run EXCEPT ![r] =
              [st EXCEPT !.pc = "items",
                         !.items = items_to_process(c, parse_github_url(c.github_url))]]
    /\ UNCHANGED <<lifeVars, confVars, pollData, protocol_tracking, session,
                   analyses, sends, handled, polls, scanVars, clock, ret>>
    /\ UNCHANGED aiVars

\* background_poller.py:318-319 with 434-528: the notification of update u;
\* the coroutine suspends only when there is something to send
AfterAnalysis(st, c, u) ==
    LET S == send_update_notification(c, u)
    IN IF S = {} THEN [st EXCEPT !.pc = "items", !.cur = 0, !.pending = {}]
       ELSE [st EXCEPT !.pc = "notify", !.cur = u.id, !.pending = S]

\* background_poller.py:302
should_analyze(st, u) ==
    should_analyze_update(u) /\ st.ai_analyses_queued < max_ai_analyses

\* background_poller.py:255-319: the loop body for one item, up to its first
\* suspension
ItemStep(r) ==
    /\ run[r].pc = "items"
    /\ LET st == run[r]
           c == st.active[st.ci]
           it == Head(st.items)
           rest == [st EXCEPT !.items = Tail(@)]
           u == new_update(c, it)
           an == should_analyze(st, u)
           counted == [rest EXCEPT !.total_updates = @ + 1,
                                   !.created = @ \cup {u.id},
                                   !.ai_analyses_queued = IF an THEN @ + 1 ELSE @]
           inline_call == an /\ ~poller.is_manual_poll /\ analysis_proceeds(u, FALSE)
       IN IF st.items = <<>>
          THEN /\ run' = [run EXCEPT ![r] = NextClient(st)]
               /\ UNCHANGED <<protocol_tracking, session, analyses, handled>>
          ELSE IF it.tag_name = ""
          THEN /\ run' = [run EXCEPT ![r] = rest]
               /\ UNCHANGED <<protocol_tracking, session, analyses, handled>>
          ELSE IF session[r] = "deactive"
          THEN /\ session' = [session EXCEPT ![r] = "ok"]
               /\ run' = [run EXCEPT ![r] = ClientError(st, "check")]
               /\ UNCHANGED <<protocol_tracking, analyses, handled>>
          ELSE IF get_protocol_update_by_tag(client_string(c), it.tag_name) # {}
          THEN /\ run' = [run EXCEPT ![r] = rest]
               /\ UNCHANGED <<protocol_tracking, session, analyses, handled>>
          ELSE IF create_fails(it)
          THEN /\ session' = [session EXCEPT ![r] = "deactive"]
               /\ run' = [run EXCEPT ![r] = ClientError(st, "create")]
               /\ UNCHANGED <<protocol_tracking, analyses, handled>>
          ELSE /\ protocol_tracking' = protocol_tracking \cup {u}
               /\ analyses' = IF ~an THEN analyses
                              ELSE analyses \cup
                                   {[id |-> u.id,
                                     mode |-> IF poller.is_manual_poll
                                              THEN "task" ELSE "inline",
                                     state |-> IF poller.is_manual_poll THEN "spawned"
                                               ELSE IF inline_call THEN "waiting"
                                               ELSE "skipped"]}
               /\ run' = [run EXCEPT ![r] =
                             IF inline_call
                             THEN [counted EXCEPT !.pc = "ai", !.cur = u.id]
                             ELSE AfterAnalysis(counted, c, u)]
               /\ handled' = IF ~inline_call /\ send_update_notification(c, u) = {}
                             THEN handled \cup {u.id} ELSE handled
               /\ UNCHANGED session
    /\ UNCHANGED <<lifeVars, confVars, pollData, sends, polls, scanVars, clock, ret>>
    /\ UNCHANGED aiVars

Row(id) == CHOOSE u \in protocol_tracking : u.id = id

Entry(id) == CHOOSE a \in analyses : a.id = id

\* the analysis result is written to the row of the update
update_protocol_update_ai_analysis(id) ==
    {IF u.id = id THEN [u EXCEPT !.ai_summary = "summary"] ELSE u :
         u \in protocol_tracking}

SetState(id, state) ==
    {IF a.id = id THEN [a EXCEPT !.state = state] ELSE a : a \in analyses}

\* background_poller.py:409-428 reached from line 311: the inference backend
\* answers the awaited analysis with a result or with none
AiStep(r, result) ==
    /\ Quiet /\ run[r].pc = "ai" /\ Resumable(r)
    /\ LET st == run[r]
           c == st.active[st.ci]
           id == st.cur
           rows == IF result THEN update_protocol_update_ai_analysis(id)
                   ELSE protocol_tracking
           u == CHOOSE x \in rows : x.id = id
       IN /\ protocol_tracking' = rows
          /\ analyses' = SetState(id, IF result THEN "stored" ELSE "failed")
          /\ run' = [run EXCEPT ![r] = AfterAnalysis(st, c, u)]
          /\ handled' = IF send_update_notification(c, u) = {}
                        THEN handled \cup {id} ELSE handled
    /\ UNCHANGED <<lifeVars, confVars, pollData, session, sends, polls,
                   scanVars, clock, ret>>
    /\ UNCHANGED aiVars

\* background_poller.py:515-528: the sends were attempted
NotifyStep(r) ==
    /\ Quiet /\ run[r].pc = "notify" /\ Resumable(r)
    /\ sends' = sends \cup run[r].pending
    /\ handled' = handled \cup {run[r].cur}
    /\ run' = [run EXCEPT ![r] = [@ EXCEPT !.pc = "items", !.cur = 0, !.pending = {}]]
    /\ UNCHANGED <<lifeVars, confVars, pollData, protocol_tracking, session,
                   analyses, polls, scanVars, clock, ret>>
    /\ UNCHANGED aiVars

\* background_poller.py:340-354 with 368-409: a spawned analysis task runs up
\* to the call of the inference backend; the event loop runs the tasks it was
\* handed in the order of their creation
AnalysisTask(id) ==
    /\ Quiet
    /\ \E a \in analyses : a.id = id /\ a.state = "spawned"
    /\ \A a \in analyses : a.state = "spawned" => id <= a.id
    /\ analyses' = SetState(id, IF analysis_proceeds(Row(id), TRUE)
                                THEN "waiting" ELSE "skipped")
    /\ UNCHANGED <<lifeVars, confVars, pollData, protocol_tracking, run, session,
                   sends, handled, polls, scanVars, clock, ret>>
    /\ UNCHANGED aiVars

\* background_poller.py:409-428 reached from line 354
AnalysisTaskDone(id, result) ==
    /\ Quiet
    /\ \E a \in analyses : a.id = id /\ a.mode = "task" /\ a.state = "waiting"
    /\ protocol_tracking' = IF result THEN update_protocol_update_ai_analysis(id)
                            ELSE protocol_tracking
    /\ analyses' = SetState(id, IF result THEN "stored" ELSE "failed")
    /\ UNCHANGED <<lifeVars, confVars, pollData, run, session, sends, handled,
                   polls, scanVars, clock, ret>>
    /\ UNCHANGED aiVars

\* what a cycle leaves behind when it ends
Finished(r, status) ==
    [by |-> r, origin |-> Origin(r), status |-> status,
     clients |-> [i \in 1..Len(run[r].active) |-> run[r].active[i].id],
     updates_created |-> run[r].total_updates,
     ai_analyses_queued |-> run[r].ai_analyses_queued,
     errors |-> run[r].errors, began |-> run[r].began, ended |-> clock,
     src |-> run[r].src, last |-> github, created |-> run[r].created]

\* --------------------------------------------- main: the analysis request

\* the result of a requested analysis is written to the row of the update
store_requested_analysis(id) ==
    {IF u.id = id THEN [u EXCEPT !.ai_summary = "explicit"] ELSE u :
         u \in protocol_tracking}

\* main.py:2555-2603: analyze_protocol_update_endpoint up to the await of the
\* inference backend; an existing analysis is returned unless force_reanalyze
AnalyzeEndpoint(id, force_reanalyze) ==
    /\ Quiet /\ id \notin explicit
    /\ \E u \in protocol_tracking : u.id = id
    /\ force_reanalyze \/ Row(id).ai_summary = ""
    /\ ai_config.exists /\ ai_config.ai_enabled /\ ai_config.api_key
    /\ explicit' = explicit \cup {id}
    /\ UNCHANGED <<lifeVars, confVars, pollData, pollVars, scanVars, clock, ret,
                   text, hard_fork_info>>

\* main.py:2603-2612: the backend answered, a result is saved
AnalyzeEndpointDone(id, result) ==
    /\ Quiet /\ id \in explicit
    /\ explicit' = explicit \ {id}
    /\ protocol_tracking' = IF result THEN store_requested_analysis(id)
                            ELSE protocol_tracking
    /\ UNCHANGED <<lifeVars, confVars, pollData, session, analyses, sends,
                   handled, polls, run, scanVars, clock, ret, text, hard_fork_info>>

\* -------------------------------------------- background_poller: poll_now

\* background_poller.py:82-98: poll_now() up to the first await of the cycle
PollNow(m, fail) ==
    /\ Quiet /\ ret.n < MaxCalls /\ clock < MaxCycles
    /\ m \in Manuals /\ run[m].pc = "idle"
    /\ IF fail
       THEN /\ ret' = Ret("poller", "poll_now", "raised", TRUE)
            /\ UNCHANGED <<poller, run, session, clock>>
       ELSE IF credential_missing(github_config)
       THEN /\ ret' = Ret("poller", "poll_now", "error", TRUE)
            /\ UNCHANGED <<poller, run, session, clock>>
       ELSE /\ poller' = [poller EXCEPT !.github_service = TRUE,
                                        !.is_manual_poll = TRUE]
            /\ run' = [run EXCEPT ![m] = StartedRun]
            /\ session' = [session EXCEPT ![m] = "ok"]
            /\ clock' = clock + 1
            /\ UNCHANGED ret
    /\ UNCHANGED <<ptasks, pstops, scanner, stasks, sstops, confVars, pollData,
                   protocol_tracking, analyses, sends, handled, polls, scanVars>>
    /\ UNCHANGED aiVars

\* background_poller.py:326-338 and 99-108: the cycle commits and returns, the
\* flag is cleared, last_poll_time is written and poll_now() returns
PollNowReturn(m) ==
    /\ m \in Manuals /\ run[m].pc = "commit"
    /\ poller' = [poller EXCEPT !.is_manual_poll = FALSE]
    /\ run' = [run EXCEPT ![m] = IdleRun]
    /\ session' = [session EXCEPT ![m] = "closed"]
    /\ IF session[m] = "deactive"
       THEN /\ polls' = Append(polls, Finished(m, "raised"))
            /\ ret' = Ret("poller", "poll_now", "raised", TRUE)
            /\ UNCHANGED github_config
       ELSE /\ polls' = Append(polls, Finished(m, "completed"))
            /\ IF github_config.exists
               THEN /\ github_config' = [github_config EXCEPT !.last_poll_time = clock]
                    /\ ret' = Ret("poller", "poll_now", "completed", TRUE)
               ELSE /\ ret' = Ret("poller", "poll_now", "raised", TRUE)
                    /\ UNCHANGED github_config
    /\ UNCHANGED <<ptasks, pstops, scanner, stasks, sstops, system_config,
                   s3_config, ai_config, notification_config,
                   client_notification_settings, pollData, protocol_tracking,
                   analyses, sends, handled, scanVars, clock>>
    /\ UNCHANGED aiVars

\* --------------------------------------- background_poller: _polling_loop

\* background_poller.py:140-147 and 155: the event loop resumes the task: it
\* runs for the first time, or its sleep is over (the finally clause then
\* releases the session of the iteration)
LoopResume(t) ==
    /\ Quiet /\ clock < MaxCycles
    /\ ptasks[t].pc \in {"created", "sleep", "backoff"} /\ ~ptasks[t].cancel
    /\ ptasks' = [ptasks EXCEPT ![t].pc = "top"]
    /\ session' = [session EXCEPT ![t] = "closed"]
    /\ UNCHANGED <<poller, pstops, scanner, stasks, sstops, confVars, pollData,
                   protocol_tracking, run, analyses, sends, handled, polls,
                   scanVars, clock, ret>>
    /\ UNCHANGED aiVars

\* background_poller.py:114-130: the loop test, a fresh session, the check of
\* the persisted flag and the head of the cycle
LoopIterate(t, fail) ==
    /\ ptasks[t].pc = "top"
    /\ IF ~poller.is_running
       THEN /\ ptasks' = [ptasks EXCEPT ![t].pc = "done"]
            /\ UNCHANGED <<poller, run, session, clock>>
       ELSE IF fail
       THEN /\ ptasks' = [ptasks EXCEPT ![t] = after_error(@)]
            /\ UNCHANGED <<poller, run, session, clock>>
       ELSE IF poller_disabled(github_config)
       THEN /\ poller' = [poller EXCEPT !.is_running = FALSE]
            /\ ptasks' = [ptasks EXCEPT ![t].pc = "done"]
            /\ UNCHANGED <<run, session, clock>>
       ELSE /\ ptasks' = [ptasks EXCEPT ![t].pc = "cycle"]
            /\ run' = [run EXCEPT ![t] = StartedRun]
            /\ session' = [session EXCEPT ![t] = "ok"]
            /\ clock' = clock + 1
            /\ UNCHANGED poller
    /\ UNCHANGED <<pstops, scanner, stasks, sstops, confVars, pollData,
                   protocol_tracking, analyses, sends, handled, polls,
                   scanVars, ret>>
    /\ UNCHANGED aiVars

\* background_poller.py:326-338 and 130-140, 142-155: the cycle commits and
\* returns, last_poll_time is written and the task sleeps with its session
\* open; a commit on a session whose transaction failed raises, the session
\* is released and the task sleeps the error delay
LoopCycleEnd(t) ==
    /\ t \in Tasks /\ ptasks[t].pc = "cycle" /\ run[t].pc = "commit"
    /\ run' = [run EXCEPT ![t] = IdleRun]
    /\ IF session[t] = "deactive"
       THEN /\ polls' = Append(polls, Finished(t, "raised"))
            /\ session' = [session EXCEPT ![t] = "closed"]
            /\ ptasks' = [ptasks EXCEPT ![t] = after_error(@)]
            /\ UNCHANGED github_config
       ELSE /\ polls' = Append(polls, Finished(t, "completed"))
            /\ IF github_config.exists
               THEN /\ github_config' = [github_config EXCEPT !.last_poll_time = clock]
                    /\ ptasks' = [ptasks EXCEPT ![t].pc = "sleep"]
                    /\ UNCHANGED session
               ELSE /\ session' = [session EXCEPT ![t] = "closed"]
                    /\ ptasks' = [ptasks EXCEPT ![t] = after_error(@)]
                    /\ UNCHANGED github_config
    /\ UNCHANGED <<poller, pstops, scanner, stasks, sstops, system_config,
                   s3_config, ai_config, notification_config,
                   client_notification_settings, pollData, protocol_tracking,
                   analyses, sends, handled, scanVars, clock, ret>>
    /\ UNCHANGED aiVars

\* the awaits a loop task can be suspended in
Suspended(t) ==
    \/ ptasks[t].pc \in {"created", "sleep", "backoff"}
    \/ ptasks[t].pc = "cycle" /\ run[t].pc \in {"fetch", "ai", "notify"}

\* background_poller.py:61 and 142-151: task.cancel() raises CancelledError at
\* the await the task is suspended in; the finally clause releases the
\* session and the loop is left. A task that never ran does not run at all.
CancelDelivered(t) ==
    /\ Quiet /\ ptasks[t].cancel /\ Suspended(t)
    /\ ptasks' = [ptasks EXCEPT ![t].pc = "done",
                                ![t].at = IF ptasks[t].pc = "cycle" THEN run[t].pc
                                          ELSE ptasks[t].pc]
    /\ run' = [run EXCEPT ![t] = IdleRun]
    /\ session' = [session EXCEPT ![t] = "closed"]
    /\ analyses' = IF run[t].pc = "ai" THEN SetState(run[t].cur, "cancelled")
                   ELSE analyses
    /\ UNCHANGED <<poller, pstops, scanner, stasks, sstops, confVars, pollData,
                   protocol_tracking, sends, handled, polls, scanVars, clock, ret>>
    /\ UNCHANGED aiVars

\* ------------------------------------------------------- the object store

\* The bucket holds version directories "<protocol_dir>/<version>/". A
\* protocol directory is its name split at "-". DirPool lists the directories
\* that can exist in the order list_objects_v2 returns them (by key).
DirPool == <<[dir |-> <<"eth", "geth">>, version |-> "1"],
             [dir |-> <<"eth", "geth">>, version |-> "latest"],
             [dir |-> <<"eth", "reth">>, version |-> "1"],
             [dir |-> <<"sol", "main">>, version |-> "1"]>>

Slots == 1..Len(DirPool)

\* a directory's content: its manifest-body.json (present, parsable, the
\* destination paths of each chunk, the length of a "files" list or -1, the
\* byte size) and the total_size of its manifest-header.json or -1
Absent == [exists |-> FALSE, present |-> FALSE, json |-> FALSE, chunks |-> <<>>,
           files |-> -1, size |-> 0, header |-> -1]

Dir(present, json, chunks, files, size, header) ==
    [exists |-> TRUE, present |-> present, json |-> json, chunks |-> chunks,
     files |-> files, size |-> size, header |-> header]

\* main.py:710-721: the deduplicated destination paths of a manifest
PathsOf(m) == UNION {Range(m.chunks[i]) : i \in DOMAIN m.chunks}

\* int(version_num), main.py:759
IsNumeric(v) == v \in {"1", "2"}

\* a prefix is a sequence of name parts, each followed by "-"
Matches(prefix, d) ==
    Len(d) > Len(prefix) /\ SubSeq(d, 1, Len(prefix)) = prefix

\* the version directories under the protocol directories a prefix selects,
\* in listing order
Listing(prefix) ==
    SeqOfSet({i \in Slots : bucket[i].exists /\ Matches(prefix, DirPool[i].dir)})

\* a table without the constraint
no_constraint(rows, row) == FALSE

\* models.py:209-211: UniqueConstraint(protocol_id, snapshot_id)
violates_unique(rows, row) ==
    \E x \in rows : x.protocol_id = row.protocol_id /\ x.snapshot_id = row.snapshot_id

\* ------------------------------------------- background_scanner: the scan

\* background_scanner.py:180,189: the name in lower case, then "-"; a name of
\* several words keeps its blanks and selects no directory
ScannerPrefix(protocol) ==
    IF Len(protocol.name) = 1 THEN <<Lower(protocol.name[1])>> ELSE <<"", "">>

\* background_scanner.py:243-246
existing_snapshot(rows, pid, name) ==
    {x \in rows : x.protocol_id = pid /\ x.snapshot_id = name}

\* background_scanner.py:253-261
ScannerRow(protocol, i, now) ==
    [protocol_id |-> protocol.id,
     snapshot_id |-> [dir |-> <<>>, version |-> DirPool[i].version],
     index_file_path |-> i,
     file_count |-> IF bucket[i].files >= 0 THEN bucket[i].files ELSE 0,
     total_size |-> bucket[i].size,
     snapshot_metadata |-> [manifest |-> bucket[i], built |-> FALSE],
     indexed_at |-> now]

\* background_scanner.py:219-273: the version directories one after another
RECURSIVE ScanDirs(_, _, _, _)
ScanDirs(rows, protocol, list, now) ==
    IF list = <<>> THEN rows
    ELSE LET i == Head(list)
             row == ScannerRow(protocol, i, now)
             skip == \/ ~bucket[i].present
                     \/ ~bucket[i].json
                     \/ existing_snapshot(rows, protocol.id, row.snapshot_id) # {}
                     \/ violates_unique(rows, row)
         IN ScanDirs(IF skip THEN rows ELSE rows \cup {row}, protocol,
                     Tail(list), now)

\* background_scanner.py:173-293
scan_protocol_snapshots(rows, protocol, now) ==
    ScanDirs(rows, protocol, Listing(ScannerPrefix(protocol)), now)

\* background_scanner.py:123-171: all protocols, one after another
RECURSIVE run_single_scan(_, _, _)
run_single_scan(rows, ps, now) ==
    IF ps = <<>> THEN rows
    ELSE run_single_scan(scan_protocol_snapshots(rows, Head(ps), now), Tail(ps), now)

Scanned(by, protocol, rows) ==
    [by |-> by, protocol |-> protocol, before |-> snapshot_indices,
     after |-> rows, bucket |-> bucket]

\* ------------------------------------------------ main.py: the scan endpoint

\* the active prefixes configured for the protocol
get_active_protocol_snapshot_prefixes(protocol) ==
    LET keep == SeqOfSet({i \in DOMAIN protocol.prefixes : protocol.prefixes[i].is_active})
    IN [k \in 1..Len(keep) |-> protocol.prefixes[keep[k]].prefix]

\* main.py:579-591
prefixes_to_scan(protocol) ==
    IF get_active_protocol_snapshot_prefixes(protocol) # <<>>
    THEN get_active_protocol_snapshot_prefixes(protocol)
    ELSE IF protocol.snapshot_prefix # <<>>
         THEN <<protocol.snapshot_prefix>>
         ELSE <<[k \in 1..Len(protocol.name) |-> Lower(protocol.name[k])]>>

\* main.py:757-794
EndpointRow(pid, i, now) ==
    [protocol_id |-> pid,
     snapshot_id |-> [dir |-> DirPool[i].dir, version |-> DirPool[i].version],
     index_file_path |-> i,
     file_count |-> Cardinality(PathsOf(bucket[i])),
     total_size |-> IF bucket[i].header >= 0 THEN bucket[i].header ELSE 0,
     snapshot_metadata |-> [manifest |-> bucket[i], built |-> TRUE],
     indexed_at |-> now]

\* main.py:647-827: the version directories of one prefix; acc is the rows
\* and the keys indexed by this call (snapshot_info)
RECURSIVE EndpointDirs(_, _, _, _)
EndpointDirs(acc, pid, list, now) ==
    IF list = <<>> THEN acc
    ELSE LET i == Head(list)
             row == EndpointRow(pid, i, now)
             skip == \/ ~bucket[i].present
                     \/ ~bucket[i].json
                     \/ PathsOf(bucket[i]) = {}
                     \/ ~IsNumeric(DirPool[i].version)
                     \/ violates_unique(acc.rows, row)
         IN EndpointDirs(IF skip THEN acc
                         ELSE [rows |-> acc.rows \cup {row},
                               info |-> acc.info \cup {row.snapshot_id}],
                         pid, Tail(list), now)

\* main.py:614-835: the prefixes one after another
RECURSIVE EndpointPrefixes(_, _, _, _)
EndpointPrefixes(acc, pid, prefixes, now) ==
    IF prefixes = <<>> THEN acc
    ELSE EndpointPrefixes(EndpointDirs(acc, pid, Listing(Head(prefixes)), now),
                          pid, Tail(prefixes), now)

Now == Len(scans) + 1

\* main.py:566-885. Every row is committed as it is added. The second pass
\* reads info["metadata"], a key the tracked entries do not have: the lookup
\* raises for the first tracked snapshot and the call answers with status 500.
ScanEndpoint(k) ==
    /\ Quiet /\ ret.n < MaxCalls /\ Len(scans) < MaxScans
    /\ k \in DOMAIN protocols
    /\ LET protocol == protocols[k]
           acc == EndpointPrefixes([rows |-> snapshot_indices, info |-> {}],
                                   protocol.id, prefixes_to_scan(protocol), Now)
       IN /\ snapshot_indices' = acc.rows
          /\ scans' = Append(scans, Scanned("endpoint", protocol.id, acc.rows))
          /\ ret' = Ret("snapshots", "scan",
                        IF acc.info = {} THEN "ok" ELSE "raised", TRUE)
    /\ UNCHANGED <<lifeVars, confVars, pollData, pollVars, protocols, bucket, clock>>
    /\ UNCHANGED aiVars

\* -------------------------------------------- background_scanner: the calls

\* background_scanner.py:23-43
ScannerStart(fail) ==
    /\ Quiet /\ ret.n < MaxCalls /\ FreeTasks(stasks) # {}
    /\ IF already_running(scanner)
       THEN /\ ret' = Ret("scanner", "start", "already_running", TRUE)
            /\ UNCHANGED <<scanner, stasks, sstops>>
       ELSE IF fail
       THEN /\ ret' = Ret("scanner", "start", "raised", TRUE)
            /\ UNCHANGED <<scanner, stasks, sstops>>
       ELSE IF \/ ~system_config.exists \/ ~system_config.auto_scan_enabled
               \/ ~s3_config.exists \/ ~s3_config.bucket_name
       THEN /\ ret' = Ret("scanner", "start", "error", TRUE)
            /\ UNCHANGED <<scanner, stasks, sstops>>
       ELSE /\ scanner' = [is_running |-> TRUE, task |-> NewTask(stasks)]
            /\ stasks' = [stasks EXCEPT ![NewTask(stasks)] = Created]
            /\ sstops' = Unclean(sstops)
            /\ ret' = Ret("scanner", "start", "started", TRUE)
    /\ UNCHANGED <<poller, ptasks, pstops, confVars, pollData, pollVars,
                   scanVars, clock>>
    /\ UNCHANGED aiVars

\* background_scanner.py:45-55: stop() up to "await self.task"; no statement
\* of it touches the database
ScannerStop ==
    /\ Quiet /\ ret.n < MaxCalls
    /\ IF ~scanner.is_running
       THEN /\ ret' = Ret("scanner", "stop", "already_stopped", TRUE)
            /\ UNCHANGED <<scanner, stasks, sstops>>
       ELSE /\ scanner' = stopped(scanner)
            /\ IF scanner.task = NoTask \/ stasks[scanner.task].pc = "done"
               THEN /\ ret' = Ret("scanner", "stop", "stopped", TRUE)
                    /\ UNCHANGED <<stasks, sstops>>
               ELSE /\ stasks' = [stasks EXCEPT ![scanner.task].cancel = TRUE]
                    /\ sstops' = sstops \cup {[task |-> scanner.task, clean |-> TRUE]}
                    /\ UNCHANGED ret
    /\ UNCHANGED <<poller, ptasks, pstops, confVars, pollData, pollVars,
                   scanVars, clock>>
    /\ UNCHANGED aiVars

\* background_scanner.py:55-60
ScannerStopReturn(s) ==
    /\ Quiet /\ s \in sstops /\ stasks[s.task].pc = "done"
    /\ sstops' = sstops \ {s}
    /\ ret' = [Ret("scanner", "stop", "stopped", s.clean) EXCEPT !.task = s.task]
    /\ UNCHANGED <<poller, ptasks, pstops, scanner, stasks, confVars, pollData,
                   pollVars, scanVars, clock>>
    /\ UNCHANGED aiVars

\* background_scanner.py:62-71
ScannerGetStatus(fail) ==
    /\ Quiet /\ ret.n < MaxCalls
    /\ ret' = Ret("scanner", "status", IF fail THEN "raised" ELSE "ok", TRUE)
    /\ UNCHANGED <<lifeVars, confVars, pollData, pollVars, scanVars, clock>>
    /\ UNCHANGED aiVars

\* background_scanner.py:73-87; the cycle has no await that suspends
ScanNow(fail) ==
    /\ Quiet /\ ret.n < MaxCalls /\ Len(scans) < MaxScans
    /\ IF fail
       THEN /\ ret' = Ret("scanner", "scan_now", "raised", TRUE)
            /\ UNCHANGED <<snapshot_indices, scans>>
       ELSE IF \/ ~system_config.exists
               \/ ~s3_config.exists \/ ~s3_config.bucket_name
       THEN /\ ret' = Ret("scanner", "scan_now", "error", TRUE)
            /\ UNCHANGED <<snapshot_indices, scans>>
       ELSE /\ snapshot_indices' = run_single_scan(snapshot_indices, protocols, Now)
            /\ scans' = Append(scans, Scanned("manual", 0, snapshot_indices'))
            /\ ret' = Ret("scanner", "scan_now", "completed", TRUE)
    /\ UNCHANGED <<lifeVars, confVars, pollData, pollVars, protocols, bucket, clock>>
    /\ UNCHANGED aiVars

\* main.py:2212-2227 with crud.py:54-70
UpdateSystemConfig(enabled) ==
    /\ Quiet /\ ret.n < MaxCalls
    /\ system_config' = [exists |-> TRUE, auto_scan_enabled |-> enabled]
    /\ sstops' = Unclean(sstops)
    /\ ret' = Ret("config", "update_system", "ok", TRUE)
    /\ UNCHANGED <<poller, ptasks, pstops, scanner, stasks, github_config,
                   s3_config, ai_config, notification_config,
                   client_notification_settings, pollData, pollVars, scanVars,
                   clock>>
    /\ UNCHANGED aiVars

\* ---------------------------- background_scanner: a scan that loses a race

\* another process that shares the database indexes directory raced between
\* the scanner's check for it (background_scanner.py:243-246) and the
\* scanner's insert (263). acc is the table and the state of the session.
RECURSIVE RacedDirs(_, _, _, _, _)
RacedDirs(acc, protocol, list, now, raced) ==
    IF list = <<>> THEN acc
    ELSE LET i == Head(list)
             row == ScannerRow(protocol, i, now)
             rest == Tail(list)
             seen == IF i = raced THEN acc.rows \cup {row} ELSE acc.rows
         IN IF \/ ~bucket[i].present \/ ~bucket[i].json
               \/ acc.session = "deactive"
               \/ existing_snapshot(acc.rows, protocol.id, row.snapshot_id) # {}
            THEN RacedDirs(acc, protocol, rest, now, raced)
            ELSE IF violates_unique(seen, row)
            THEN RacedDirs([rows |-> seen, session |-> "deactive"], protocol,
                           rest, now, raced)
            ELSE RacedDirs([acc EXCEPT !.rows = seen \cup {row}], protocol,
                           rest, now, raced)

\* background_scanner.py:144-160 with 173-293: all protocols with the one
\* session of the cycle; nothing rolls the session back
RECURSIVE run_raced_scan(_, _, _, _)
run_raced_scan(acc, ps, now, raced) ==
    IF ps = <<>> THEN acc
    ELSE run_raced_scan(
             RacedDirs(acc, Head(ps), Listing(ScannerPrefix(Head(ps))), now, raced),
             Tail(ps), now, raced)

\* background_scanner.py:73-87: scan_now() while the other process writes
ScanNowRaced(raced) ==
    /\ Quiet /\ ret.n < MaxCalls /\ Len(scans) < MaxScans
    /\ system_config.exists /\ s3_config.exists /\ s3_config.bucket_name
    /\ raced \in Slots /\ bucket[raced].present /\ bucket[raced].json
    /\ LET acc == run_raced_scan([rows |-> snapshot_indices, session |-> "ok"],
                                 protocols, Now, raced)
       IN /\ acc.session = "deactive"
          /\ snapshot_indices' = acc.rows
          /\ scans' = Append(scans, Scanned("raced", 0, acc.rows))
    /\ ret' = Ret("scanner", "scan_now", "completed", TRUE)
    /\ UNCHANGED <<lifeVars, confVars, pollData, pollVars, protocols, bucket, clock>>
    /\ UNCHANGED aiVars

\* ----------------------------------------- background_scanner: the loop

\* background_scanner.py:93-119: one iteration, from the loop test to the
\* sleep, without a suspension in between
ScanLoopStep(t, fail) ==
    /\ Quiet /\ Len(scans) < MaxScans
    /\ stasks[t].pc \in {"created", "sleep", "backoff"} /\ ~stasks[t].cancel
    /\ IF ~scanner.is_running
       THEN /\ stasks' = [stasks EXCEPT ![t].pc = "done"]
            /\ UNCHANGED <<scanner, snapshot_indices, scans>>
       ELSE IF fail
       THEN /\ stasks' = [stasks EXCEPT ![t] = after_error(@)]
            /\ UNCHANGED <<scanner, snapshot_indices, scans>>
       ELSE IF ~system_config.exists \/ ~system_config.auto_scan_enabled
       THEN /\ scanner' = [scanner EXCEPT !.is_running = FALSE]
            /\ stasks' = [stasks EXCEPT ![t].pc = "done"]
            /\ UNCHANGED <<snapshot_indices, scans>>
       ELSE /\ snapshot_indices' = run_single_scan(snapshot_indices, protocols, Now)
            /\ scans' = Append(scans, Scanned("loop", 0, snapshot_indices'))
            /\ stasks' = [stasks EXCEPT ![t].pc = "sleep"]
            /\ UNCHANGED scanner
    /\ UNCHANGED <<poller, ptasks, pstops, sstops, confVars, pollData, pollVars,
                   protocols, bucket, clock, ret>>
    /\ UNCHANGED aiVars

\* background_scanner.py:53 and 113-115
ScannerCancelDelivered(t) ==
    /\ Quiet /\ stasks[t].cancel /\ stasks[t].pc \in {"created", "sleep", "backoff"}
    /\ stasks' = [stasks EXCEPT ![t].pc = "done", ![t].at = stasks[t].pc]
    /\ UNCHANGED <<poller, ptasks, pstops, scanner, sstops, confVars, pollData,
                   pollVars, scanVars, clock, ret>>
    /\ UNCHANGED aiVars

\* -------------------------------------------------------------- the data

Long == [len |-> 50, blank |-> 0]
Padded == [len |-> 12, blank |-> 5]

Release(tag, age, notes, draft) ==
    [tag_name |-> tag, published_at |-> age, body |-> notes, draft |-> draft,
     prerelease |-> FALSE]

\* the repositories the clients point at
Repos ==
    (<<"eth", "geth">> :> [status |-> "ok",
                           releases |-> <<Release("v1", 1, Long, FALSE),
                                          Release("v0", 10, Padded, FALSE)>>,
                           tags |-> <<>>])
    @@ (<<"paradigm", "reth">> :> [status |-> "ok",
                                   releases |-> <<Release("v2", NoDate, Long, TRUE),
                                                  Release("v1", 3, Long, FALSE)>>,
                                   tags |-> <<>>])
    @@ (<<"sol", "sol">> :> [status |-> "ok", releases |-> <<>>,
                             tags |-> <<[name |-> "t1", commit_date |-> 40],
                                        [name |-> "", commit_date |-> 1]>>])
    @@ (<<"down", "down">> :> [status |-> "error",
                               releases |-> <<Release("v1", 1, Long, FALSE)>>,
                               tags |-> <<>>])

\* a repository with as many recent tags as one cycle may analyse
RECURSIVE ManyTags(_)
ManyTags(n) ==
    IF n = 0 THEN <<>>
    ELSE Append(ManyTags(n - 1), [name |-> ToString(n), commit_date |-> 2])

CapRepos ==
    (<<"eth", "geth">> :> [status |-> "ok",
                           releases |-> <<Release("v1", 1, Long, FALSE)>>,
                           tags |-> <<>>])
    @@ (<<"sol", "sol">> :> [status |-> "ok", releases |-> <<>>,
                             tags |-> ManyTags(max_ai_analyses)])

ClientPool ==
    <<[name |-> "Geth", client |-> "geth", repo_type |-> "",
       github_url |-> [host |-> "github.com", path |-> <<"eth", "geth.git">>]],
      [name |-> "Reth", client |-> "", repo_type |-> "Releases",
       github_url |-> [host |-> "github.com", path |-> <<"paradigm", "reth">>]],
      [name |-> "Sol", client |-> "sol", repo_type |-> "Tags",
       github_url |-> [host |-> "github.com", path |-> <<"sol", "sol">>]],
      [name |-> "Lab", client |-> "lab", repo_type |-> "",
       github_url |-> [host |-> "gitlab.com", path |-> <<"lab", "lab">>]],
      [name |-> "Down", client |-> "down", repo_type |-> "",
       github_url |-> [host |-> "github.com", path |-> <<"down", "down">>]]>>

\* the clients table holding the pool entries picks[1], picks[2], ...
ClientsOf(picks) ==
    [i \in 1..Len(picks) |->
        [id |-> i, name |-> ClientPool[picks[i]].name,
         client |-> ClientPool[picks[i]].client,
         repo_type |-> ClientPool[picks[i]].repo_type,
         github_url |-> ClientPool[picks[i]].github_url]]

Picks ==
    {p \in UNION {[1..n -> DOMAIN ClientPool] : n \in 1..MaxClients} :
        \A i, j \in DOMAIN p : i # j => p[i] # p[j]}

NoAI == [exists |-> FALSE, ai_enabled |-> FALSE, auto_analyze_enabled |-> FALSE,
         api_key |-> FALSE, provider_valid |-> FALSE]
AutoAI == [exists |-> TRUE, ai_enabled |-> TRUE, auto_analyze_enabled |-> TRUE,
           api_key |-> TRUE, provider_valid |-> TRUE]

Channels == Webhooks \cup {"telegram"}

Notifying ==
    [exists |-> TRUE, notifications_enabled |-> TRUE,
     enabled |-> [ch \in Channels |-> ch # "generic"],
     webhook_urls |-> [ch \in Webhooks |->
                          IF ch = "discord" THEN <<"d1", "d2">> ELSE <<>>],
     webhook_url |-> [ch \in Webhooks |-> IF ch = "slack" THEN "s1" ELSE ""],
     telegram_bot_token |-> "token", telegram_chat_ids |-> <<"c1">>]

Silent == [Notifying EXCEPT !.notifications_enabled = FALSE]

\* a configuration that has a legacy URL beside the URL list of a channel
Merged == [Notifying EXCEPT !.webhook_url["discord"] = "d0"]

Paths == Dir(TRUE, TRUE, <<<<"a/x", "a/y">>, <<"a/x">>>>, -1, 90, 7)
Files == Dir(TRUE, TRUE, <<>>, 3, 40, -1)
EmptyChunks == Dir(TRUE, TRUE, <<>>, -1, 14, -1)
NoDestinations == Dir(TRUE, TRUE, <<<<>>, <<>>>>, -1, 30, 7)
Malformed == Dir(TRUE, FALSE, <<>>, -1, 5, -1)
NoManifest == Dir(FALSE, FALSE, <<>>, -1, 0, -1)
Replaced == Dir(TRUE, TRUE, <<<<"b/z">>>>, -1, 60, 9)

\* what each directory of DirPool can hold at the start
Contents(i) == CASE i = 1 -> {Paths, EmptyChunks, NoDestinations, Malformed}
                 [] i = 2 -> {Paths, NoManifest}
                 [] i = 3 -> {Paths, Files}
                 [] OTHER -> {Paths}

Buckets ==
    {b \in [Slots -> {Absent} \cup UNION {Contents(i) : i \in Slots}] :
        /\ \A i \in Slots : b[i] = Absent \/ b[i] \in Contents(i)
        /\ Cardinality({i \in Slots : b[i].exists}) <= MaxDirs}

Protocols ==
    <<[id |-> 1, name |-> <<"Eth">>, snapshot_prefix |-> <<>>, prefixes |-> <<>>],
      [id |-> 2, name |-> <<"Sol">>, snapshot_prefix |-> <<"sol">>,
       prefixes |-> <<>>]>>

\* ------------------------------------------------ ai_service: hard forks

\* A text is a sequence of words separated by blanks. The regular expressions
\* of detect_hard_fork are modelled by what they match on the words of
\* Vocabulary: "hard-fork" holds no blank, so "hard\s*fork" does not match it;
\* "roadblock" ends in "block", which the block patterns, having no \b, match.
Vocabulary == {"Hard", "fork", "hardfork", "hard-fork", "Block", "roadblock",
               "activation", "upgrade", "mandatory", "19000000", "#7"}

Texts == UNION {[1..n -> Vocabulary] : n \in 0..MaxWords}

\* ai_service.py:338: text.lower()
text_lower(t) == [i \in DOMAIN t |-> Lower(t[i])]

\* ai_service.py:342-351: each pattern as the word sequences it matches
hard_fork_patterns ==
    <<{<<"hard", "fork">>, <<"hardfork">>}, {<<"hardfork">>},
      {<<"network", "upgrade">>}, {<<"consensus", "change">>},
      {<<"protocol", "change">>},
      {<<"backward", "incompatible">>, <<"backwards", "incompatible">>},
      {<<"activation", "block">>},
      {<<"upgrade", "block">>}>>

\* ai_service.py:354-359
ethereum_patterns ==
    <<{<<n>> : n \in {"shanghai", "dencun", "shapella", "berlin", "london",
                      "istanbul", "constantinople", "byzantium"}},
      {<<"eip-4844">>, <<"eip4844">>, <<"eip", "4844">>},
      {<<"consensus", "layer">>}, {<<"execution", "layer">>}>>

\* the words of phrase stand in t from position i on
PhraseAt(phrase, t, i) ==
    /\ i + Len(phrase) - 1 <= Len(t)
    /\ \A k \in 1..Len(phrase) : t[i + k - 1] = phrase[k]

\* ai_service.py:366: the places where re.findall(pattern, text_lower) matches
findall(pattern, t) ==
    {i \in DOMAIN t : \E phrase \in pattern : PhraseAt(phrase, t, i)}

\* the (\d+) group behind an optional "#", or NoBlock where the word does
\* not start that way
NoBlock == -1
Digits(w) == CASE w = "19000000" -> 19000000
               [] w = "#7" -> 7
               [] OTHER -> NoBlock

\* ai_service.py:373-377: the words in front of the number; the first one is
\* not anchored, so a word that ends in it matches too
block_patterns == <<<<"block">>, <<"activation", "block">>, <<"upgrade", "block">>>>

EndsIn(w, tail) == w = tail \/ (tail = "block" /\ w = "roadblock")

BlockAt(pattern, t, i) ==
    /\ i + Len(pattern) <= Len(t)
    /\ EndsIn(t[i], pattern[1])
    /\ \A k \in 2..Len(pattern) : t[i + k - 1] = pattern[k]
    /\ Digits(t[i + Len(pattern)]) # NoBlock

\* a search that answers with the last match
last_match(pattern, t) ==
    LET hits == {i \in DOMAIN t : BlockAt(pattern, t, i)}
    IN IF hits = {} THEN 0 ELSE CHOOSE i \in hits : \A j \in hits : j <= i

\* ai_service.py:380: re.search(pattern, text_lower), the leftmost match, 0 for none
search(pattern, t) ==
    LET hits == {i \in DOMAIN t : BlockAt(pattern, t, i)}
    IN IF hits = {} THEN 0 ELSE CHOOSE i \in hits : \A j \in hits : i <= j

\* ai_service.py:379-386: the first pattern that matches decides
RECURSIVE activation_block(_, _)
activation_block(patterns, t) ==
    IF patterns = <<>> THEN NoBlock
    ELSE IF search(Head(patterns), t) # 0
         THEN Digits(t[search(Head(patterns), t) + Len(Head(patterns))])
         ELSE activation_block(Tail(patterns), t)

\* ai_service.py:403-409: the phrases that ask for coordination
coordination_phrases ==
    {<<"all", "nodes", "must", "upgrade">>, <<"mandatory", "upgrade">>,
     <<"coordination", "required">>, <<"network", "participants", "must">>,
     <<"validators", "must", "upgrade">>}

\* ai_service.py:336-417
detect_hard_fork(t) ==
    LET low == text_lower(t)
        all == hard_fork_patterns \o ethereum_patterns
        is_hard_fork == \E n \in DOMAIN all : findall(all[n], low) # {}
    IN [called |-> TRUE,
        is_hard_fork |-> is_hard_fork,
        activation_block |-> activation_block(block_patterns, low),
        coordination_required |->
            \/ is_hard_fork
            \/ \E phrase \in coordination_phrases :
                   \E i \in DOMAIN low : PhraseAt(phrase, low, i)]

\* ai_service.py:444-450: estimate_importance hands the notes to detect_hard_fork
DetectHardFork ==
    /\ ~hard_fork_info.called
    /\ hard_fork_info' = detect_hard_fork(text)
    /\ UNCHANGED <<lifeVars, confVars, pollData, pollVars, scanVars, clock, ret,
                   text, explicit>>

\* ------------------------------------------------------- the specifications

\* detect_hard_fork has not been called
NoInfo == [called |-> FALSE]

\* what every specification starts from: nothing polled, nothing scanned
InitCommon ==
    /\ pstops = {} /\ sstops = {}
    /\ stasks = [t \in Tasks |-> NotCreated]
    /\ scanner = [is_running |-> FALSE, task |-> NoTask]
    /\ system_config = [exists |-> TRUE, auto_scan_enabled |-> TRUE]
    /\ s3_config = [exists |-> TRUE, bucket_name |-> TRUE]
    /\ protocol_tracking = {} /\ analyses = {} /\ sends = {} /\ handled = {}
    /\ run = [r \in Runners |-> IdleRun]
    /\ session = [r \in Runners |-> "closed"]
    /\ polls = <<>> /\ scans = <<>> /\ snapshot_indices = {}
    /\ protocols = Protocols
    /\ clock = 0
    /\ ret = [n |-> 0, svc |-> "", op |-> "", status |-> "", clean |-> TRUE,
              task |-> NoTask]
    /\ text = <<>> /\ hard_fork_info = NoInfo /\ explicit = {}

\* background_poller.py:20-24, background_scanner.py:19-21: the process has
\* just constructed both services; the GitHubConfig row may not exist yet,
\* or exist with an empty api_key
Init ==
    /\ InitCommon
    /\ poller = [is_running |-> FALSE, task |-> NoTask, is_manual_poll |-> FALSE,
                 github_service |-> FALSE]
    /\ ptasks = [t \in Tasks |-> NotCreated]
    /\ \E e, k \in BOOLEAN :
          /\ k => e
          /\ github_config = [exists |-> e, api_key |-> k, poller_enabled |-> FALSE,
                              last_poll_time |-> 0]
    /\ ai_config = AutoAI
    /\ notification_config = Notifying
    /\ clients = ClientsOf(<<1>>)
    /\ client_notification_settings = [i \in 1..Len(ClientPool) |-> "absent"]
    /\ github = [Repos EXCEPT ![<<"eth", "geth">>].releases = SubSeq(@, 1, 1)]
    /\ bucket = [i \in Slots |-> IF i = 1 THEN Paths ELSE Absent]

Cycle(r) ==
    \/ ClientStep(r)
    \/ FetchStep(r)
    \/ ItemStep(r)
    \/ \E result \in BOOLEAN : AiStep(r, result)
    \/ NotifyStep(r)

Analysis ==
    \E u \in protocol_tracking :
        \/ AnalysisTask(u.id)
        \/ \E result \in BOOLEAN : AnalysisTaskDone(u.id, result)

Next ==
    \/ \E fail \in BOOLEAN : PollerStart(fail)
    \/ \E fail \in BOOLEAN : PollerStop(fail)
    \/ \E s \in pstops : PollerStopReturn(s)
    \/ \E fail \in BOOLEAN : PollerGetStatus(fail)
    \/ \E m \in Manuals, fail \in BOOLEAN : PollNow(m, fail)
    \/ \E m \in Manuals : PollNowReturn(m)
    \/ CreateGithubConfig
    \/ \E enabled \in BOOLEAN : UpdateGithubConfig(enabled)
    \/ \E t \in Tasks : LoopResume(t)
    \/ \E t \in Tasks, fail \in BOOLEAN : LoopIterate(t, fail)
    \/ \E t \in Tasks : LoopCycleEnd(t)
    \/ \E t \in Tasks : CancelDelivered(t)
    \/ \E r \in Runners : Cycle(r)
    \/ Analysis
    \/ \E fail \in BOOLEAN : ScannerStart(fail)
    \/ ScannerStop
    \/ \E s \in sstops : ScannerStopReturn(s)
    \/ \E fail \in BOOLEAN : ScannerGetStatus(fail)
    \/ \E fail \in BOOLEAN : ScanNow(fail)
    \/ \E enabled \in BOOLEAN : UpdateSystemConfig(enabled)
    \/ \E t \in Tasks, fail \in BOOLEAN : ScanLoopStep(t, fail)
    \/ \E t \in Tasks : ScannerCancelDelivered(t)

Spec == Init /\ [][Next]_vars

\* a maintainer publishes a release of a repository the clients point at
Publish(repo) ==
    /\ Quiet /\ repo \in DOMAIN github
    /\ \A i \in DOMAIN github[repo].releases :
           github[repo].releases[i].tag_name # "v3"
    /\ github' = [github EXCEPT ![repo].releases =
                      <<Release("v3", 0, Long, FALSE)>> \o @]
    /\ UNCHANGED <<lifeVars, confVars, clients, pollVars, scanVars, clock, ret>>
    /\ UNCHANGED aiVars

\* main.py:86-98: the process came up with poller_enabled persisted and has
\* started the poller; the tables hold some clients and settings
InitPoll ==
    /\ InitCommon
    /\ poller = [is_running |-> TRUE, task |-> 1, is_manual_poll |-> FALSE,
                 github_service |-> TRUE]
    /\ ptasks = [t \in Tasks |-> IF t = 1 THEN Created ELSE NotCreated]
    /\ github_config = [exists |-> TRUE, api_key |-> TRUE, poller_enabled |-> TRUE,
                        last_poll_time |-> 0]
    /\ bucket = [i \in Slots |-> Absent]
    /\ \/ /\ \E picks \in Picks : clients = ClientsOf(picks)
          /\ github = Repos
          /\ \E conf \in {<<AutoAI, Notifying, "absent">>,
                          <<AutoAI, Notifying, "off">>,
                          <<NoAI, Silent, "on">>} :
                /\ ai_config = conf[1]
                /\ notification_config = conf[2]
                /\ client_notification_settings =
                       [i \in 1..Len(ClientPool) |-> IF i = 1 THEN conf[3] ELSE "absent"]
       \/ /\ clients = ClientsOf(<<3, 1>>)
          /\ github = CapRepos
          /\ ai_config = AutoAI
          /\ notification_config = Silent
          /\ client_notification_settings = [i \in 1..Len(ClientPool) |-> "absent"]

NextPoll ==
    \/ \E m \in Manuals : PollNow(m, FALSE)
    \/ \E m \in Manuals : PollNowReturn(m)
    \/ \E t \in Tasks : LoopResume(t)
    \/ \E t \in Tasks : LoopIterate(t, FALSE)
    \/ \E t \in Tasks : LoopCycleEnd(t)
    \/ \E r \in Runners : Cycle(r)
    \/ Analysis
    \/ \E repo \in {<<"eth", "geth">>} : Publish(repo)

SpecPoll == InitPoll /\ [][NextPoll]_vars

\* the poller of SpecPoll with automatic analysis, and analysis requests
InitAnalysis ==
    /\ InitPoll
    /\ ai_config = AutoAI
    /\ github = Repos

NextAnalysis ==
    \/ \E m \in Manuals : PollNow(m, FALSE)
    \/ \E m \in Manuals : PollNowReturn(m)
    \/ \E t \in Tasks : LoopResume(t)
    \/ \E t \in Tasks : LoopIterate(t, FALSE)
    \/ \E t \in Tasks : LoopCycleEnd(t)
    \/ \E r \in Runners : Cycle(r)
    \/ Analysis
    \/ \E u \in protocol_tracking, force_reanalyze \in BOOLEAN :
           AnalyzeEndpoint(u.id, force_reanalyze)
    \/ \E id \in explicit, result \in BOOLEAN : AnalyzeEndpointDone(id, result)

SpecAnalysis == InitAnalysis /\ [][NextAnalysis]_vars

\* both loops are running; the Reth repository holds a release that cannot
\* be stored, so that cycles of the poller raise
InitLoops ==
    /\ pstops = {} /\ sstops = {}
    /\ poller = [is_running |-> TRUE, task |-> 1, is_manual_poll |-> FALSE,
                 github_service |-> TRUE]
    /\ ptasks = [t \in Tasks |-> IF t = 1 THEN Created ELSE NotCreated]
    /\ scanner = [is_running |-> TRUE, task |-> 1]
    /\ stasks = [t \in Tasks |-> IF t = 1 THEN Created ELSE NotCreated]
    /\ system_config = [exists |-> TRUE, auto_scan_enabled |-> TRUE]
    /\ s3_config = [exists |-> TRUE, bucket_name |-> TRUE]
    /\ github_config = [exists |-> TRUE, api_key |-> TRUE, poller_enabled |-> TRUE,
                        last_poll_time |-> 0]
    /\ ai_config = NoAI
    /\ notification_config = Silent
    /\ client_notification_settings = [i \in 1..Len(ClientPool) |-> "absent"]
    /\ \E picks \in {<<2>>, <<1, 2>>, <<1>>} : clients = ClientsOf(picks)
    /\ github = Repos
    /\ protocol_tracking = {} /\ analyses = {} /\ sends = {} /\ handled = {}
    /\ run = [r \in Runners |-> IdleRun]
    /\ session = [r \in Runners |-> "closed"]
    /\ polls = <<>> /\ scans = <<>> /\ snapshot_indices = {}
    /\ protocols = Protocols
    /\ clock = 0
    /\ ret = [n |-> 0, svc |-> "", op |-> "", status |-> "", clean |-> TRUE,
              task |-> NoTask]
    /\ text = <<>> /\ hard_fork_info = NoInfo /\ explicit = {}
    /\ bucket = [i \in Slots |-> Absent]

NextLoops ==
    \/ \E t \in Tasks : LoopResume(t)
    \/ \E t \in Tasks, fail \in BOOLEAN : LoopIterate(t, fail)
    \/ \E t \in Tasks : LoopCycleEnd(t)
    \/ \E t \in Tasks : ClientStep(t)
    \/ \E t \in Tasks : FetchStep(t)
    \/ \E t \in Tasks : ItemStep(t)
    \/ \E t \in Tasks : CancelDelivered(t)
    \/ PollerStop(FALSE)
    \/ \E s \in pstops : PollerStopReturn(s)
    \/ \E t \in Tasks, fail \in BOOLEAN : ScanLoopStep(t, fail)
    \/ \E t \in Tasks : ScannerCancelDelivered(t)
    \/ ScannerStop
    \/ \E s \in sstops : ScannerStopReturn(s)

SpecLoops == InitLoops /\ [][NextLoops]_vars

\* an operator of the storage replaces the content of a version directory
BucketPut(i) ==
    /\ Quiet /\ i \in Slots
    /\ bucket[i].exists /\ bucket[i] # Replaced
    /\ bucket' = [bucket EXCEPT ![i] = Replaced]
    /\ UNCHANGED <<lifeVars, confVars, pollData, pollVars, protocols,
                   snapshot_indices, scans, clock, ret>>
    /\ UNCHANGED aiVars

\* main.py:100-113: the process came up with auto_scan_enabled persisted and
\* has started the scanner; the bucket holds some version directories
InitScanOf(ps) ==
    /\ pstops = {} /\ sstops = {}
    /\ poller = [is_running |-> FALSE, task |-> NoTask, is_manual_poll |-> FALSE,
                 github_service |-> FALSE]
    /\ ptasks = [t \in Tasks |-> NotCreated]
    /\ scanner = [is_running |-> TRUE, task |-> 1]
    /\ stasks = [t \in Tasks |-> IF t = 1 THEN Created ELSE NotCreated]
    /\ system_config = [exists |-> TRUE, auto_scan_enabled |-> TRUE]
    /\ s3_config = [exists |-> TRUE, bucket_name |-> TRUE]
    /\ github_config = [exists |-> FALSE, api_key |-> FALSE, poller_enabled |-> FALSE,
                        last_poll_time |-> 0]
    /\ ai_config = NoAI
    /\ notification_config = Silent
    /\ client_notification_settings = [i \in 1..Len(ClientPool) |-> "absent"]
    /\ clients = <<>>
    /\ github = Repos
    /\ protocol_tracking = {} /\ analyses = {} /\ sends = {} /\ handled = {}
    /\ run = [r \in Runners |-> IdleRun]
    /\ session = [r \in Runners |-> "closed"]
    /\ polls = <<>> /\ scans = <<>> /\ snapshot_indices = {}
    /\ protocols = ps
    /\ clock = 0
    /\ ret = [n |-> 0, svc |-> "", op |-> "", status |-> "", clean |-> TRUE,
              task |-> NoTask]
    /\ text = <<>> /\ hard_fork_info = NoInfo /\ explicit = {}
    /\ bucket \in Buckets

InitScan == InitScanOf(Protocols)

NextScan ==
    \/ ScanNow(FALSE)
    \/ \E k \in DOMAIN protocols : ScanEndpoint(k)
    \/ \E t \in Tasks : ScanLoopStep(t, FALSE)
    \/ \E i \in Slots : BucketPut(i)

\* the values of clients.repo_type: unset, the two the poller knows in either
\* case of letters, and another one
RepoTypes == {"", "Releases", "releases", "Tags", "both"}

\* a clients table of MaxTracked rows: Geth in row pos, and rows without a
\* repository URL around it
Tracked(pos, repo_type) ==
    [i \in 1..MaxTracked |->
        IF i = pos
        THEN [id |-> i, name |-> ClientPool[1].name, client |-> ClientPool[1].client,
              repo_type |-> repo_type,
              github_url |-> ClientPool[1].github_url]
        ELSE [id |-> i, name |-> "Idle", client |-> "idle", repo_type |-> "",
              github_url |-> [host |-> "", path |-> <<>>]]]

\* the poller runs over a long clients table
InitMany ==
    /\ InitCommon
    /\ poller = [is_running |-> TRUE, task |-> 1, is_manual_poll |-> FALSE,
                 github_service |-> TRUE]
    /\ ptasks = [t \in Tasks |-> IF t = 1 THEN Created ELSE NotCreated]
    /\ github_config = [exists |-> TRUE, api_key |-> TRUE, poller_enabled |-> TRUE,
                        last_poll_time |-> 0]
    /\ bucket = [i \in Slots |-> Absent]
    /\ \E pos \in 1..MaxTracked, repo_type \in RepoTypes :
          clients = Tracked(pos, repo_type)
    /\ github = Repos
    /\ ai_config = NoAI
    /\ notification_config \in {Silent, Merged}
    /\ client_notification_settings = [i \in 1..MaxTracked |-> "absent"]

NextMany ==
    \/ \E m \in Manuals : PollNow(m, FALSE)
    \/ \E m \in Manuals : PollNowReturn(m)
    \/ \E t \in Tasks : LoopResume(t)
    \/ \E t \in Tasks : LoopIterate(t, FALSE)
    \/ \E t \in Tasks : LoopCycleEnd(t)
    \/ \E r \in Runners : ClientStep(r)
    \/ \E r \in Runners : FetchStep(r)
    \/ \E r \in Runners : ItemStep(r)
    \/ \E r \in Runners : NotifyStep(r)

SpecMany == InitMany /\ [][NextMany]_vars

SpecScan == InitScan /\ [][NextScan]_vars

\* protocols with a legacy prefix, an active or an inactive configured
\* prefix, each other than the prefix their name gives
ProtocolConfigs ==
    {Protocols,
     <<[id |-> 1, name |-> <<"Eth">>, snapshot_prefix |-> <<"sol">>,
        prefixes |-> <<>>]>>,
     <<[id |-> 1, name |-> <<"Eth">>, snapshot_prefix |-> <<>>,
        prefixes |-> <<[prefix |-> <<"sol">>, is_active |-> TRUE]>>]>>,
     <<[id |-> 1, name |-> <<"Eth">>, snapshot_prefix |-> <<"sol">>,
        prefixes |-> <<[prefix |-> <<"eth">>, is_active |-> FALSE]>>]>>}

InitPrefix == \E ps \in ProtocolConfigs : InitScanOf(ps)

SpecPrefix == InitPrefix /\ [][NextScan]_vars

\* the scanner of SpecScan beside a second writer of the table
NextRace ==
    \/ ScanNow(FALSE)
    \/ \E t \in Tasks : ScanLoopStep(t, FALSE)
    \/ \E i \in Slots : BucketPut(i)
    \/ \E i \in Slots : ScanNowRaced(i)

SpecRace == InitScan /\ [][NextRace]_vars

\* some release notes are about to be analysed
InitFork ==
    /\ pstops = {} /\ sstops = {}
    /\ poller = [is_running |-> FALSE, task |-> NoTask, is_manual_poll |-> FALSE,
                 github_service |-> FALSE]
    /\ ptasks = [t \in Tasks |-> NotCreated]
    /\ scanner = [is_running |-> FALSE, task |-> NoTask]
    /\ stasks = [t \in Tasks |-> NotCreated]
    /\ system_config = [exists |-> TRUE, auto_scan_enabled |-> FALSE]
    /\ s3_config = [exists |-> TRUE, bucket_name |-> TRUE]
    /\ github_config = [exists |-> FALSE, api_key |-> FALSE, poller_enabled |-> FALSE,
                        last_poll_time |-> 0]
    /\ ai_config = AutoAI
    /\ notification_config = Silent
    /\ client_notification_settings = [i \in 1..Len(ClientPool) |-> "absent"]
    /\ clients = <<>>
    /\ github = Repos
    /\ protocol_tracking = {} /\ analyses = {} /\ sends = {} /\ handled = {}
    /\ run = [r \in Runners |-> IdleRun]
    /\ session = [r \in Runners |-> "closed"]
    /\ polls = <<>> /\ scans = <<>> /\ snapshot_indices = {}
    /\ protocols = Protocols
    /\ bucket = [i \in Slots |-> Absent]
    /\ clock = 0
    /\ ret = [n |-> 0, svc |-> "", op |-> "", status |-> "", clean |-> TRUE,
              task |-> NoTask]
    /\ text \in Texts
    /\ hard_fork_info = NoInfo
    /\ explicit = {}

NextFork == DetectHardFork

SpecFork == InitFork /\ [][NextFork]_vars

\* ------------------------------------------------------------------ claims

Running(svc) == IF svc = "poller" THEN poller.is_running ELSE scanner.is_running

\* C1: a start() call made while the service is running returns
\* "already_running" and changes nothing: no new task, is_running, the task
\* reference and the persisted flag stay as they were (poller and scanner).
C1_StartWhileRunning ==
    [][(/\ ret'.n # ret.n /\ ret'.op = "start"
        /\ ret'.svc \in {"poller", "scanner"} /\ Running(ret'.svc))
       => /\ ret'.status = "already_running"
          /\ UNCHANGED <<poller, ptasks, scanner, stasks, github_config,
                         system_config>>]_vars

C1_Witness ==
    /\ ret.svc = "poller" /\ ret.op = "start" /\ ret.status = "already_running"
    /\ poller.is_running /\ github_config.poller_enabled
    /\ Cardinality({t \in Tasks : ptasks[t].pc # "none"}) = 1

\* a stop() of the poller has returned "stopped" and, while it ran, no other
\* start() and no write of the configuration were made
StopReturned ==
    /\ ret.svc = "poller" /\ ret.op = "stop" /\ ret.status = "stopped"
    /\ ret.clean

C9_NeverRaises ==
    ret.svc \in {"poller", "scanner"} => ret.status # "raised"

\* C10: when stop() on a running scanner has returned, the persisted
\* auto_scan_enabled flag is false and is_running is false.
C10_StopScanner ==
    (/\ ret.svc = "scanner" /\ ret.op = "stop" /\ ret.status = "stopped"
     /\ ret.clean)
    => ~system_config.auto_scan_enabled /\ ~scanner.is_running

\* ------------------------------------------------------- claims on polling

\* cycle j began after cycle i had ended, and the source held the same data
\* from the start of i to the end of j as far as the two cycles saw it
Rerun(i, j) ==
    /\ polls[j].began > polls[i].ended
    /\ polls[i].src = polls[i].last /\ polls[j].src = polls[j].last
    /\ polls[i].src = polls[j].src

\* C3: there is at most one ProtocolUpdate row per (client string, tag), and
\* a cycle run again over identical source data creates no row.
C3_OneRowPerTag ==
    /\ \A u, v \in protocol_tracking :
          (u.client = v.client /\ u.tag = v.tag) => u.id = v.id
    /\ \A i, j \in DOMAIN polls : Rerun(i, j) => polls[j].updates_created = 0

C3_Witness ==
    \E i, j \in DOMAIN polls :
        /\ Rerun(i, j)
        /\ polls[i].updates_created >= 2 /\ polls[j].updates_created = 0
        /\ Cardinality(protocol_tracking) = polls[i].updates_created

\* what the source held for client c when the cycle fetched it
ItemsAt(src, c) ==
    LET repo_info == parse_github_url(c.github_url)
        repo == <<repo_info.owner, repo_info.repo>>
    IN IF ~repo_info.ok \/ repo \notin DOMAIN src \/ src[repo].status # "ok"
       THEN <<>>
       ELSE IF should_fetch_releases(c) THEN src[repo].releases
       ELSE IF should_fetch_tags(c)
            THEN [i \in DOMAIN src[repo].tags |-> tag_item(src[repo].tags[i])]
            ELSE <<>>

\* nothing about client c itself makes a step of its processing fail
Healthy(src, c) ==
    LET repo_info == parse_github_url(c.github_url)
    IN /\ repo_info.ok
       /\ <<repo_info.owner, repo_info.repo>> \in DOMAIN src
       /\ src[<<repo_info.owner, repo_info.repo>>].status = "ok"
       /\ \A i \in DOMAIN ItemsAt(src, c) : ItemsAt(src, c)[i].published_at # NoDate

\* C4: a client whose processing fails at any step (URL parse, fetch,
\* existence check, record creation) does not keep the others from being
\* processed: the cycle still returns "completed", every healthy client's
\* items are persisted and the failure is listed in errors.
C4_FaultIsolation ==
    \A k \in DOMAIN polls :
        LET p == polls[k]
        IN /\ p.status = "completed"
           /\ \A n \in DOMAIN p.clients :
                 LET c == clients[p.clients[n]]
                 IN IF Healthy(p.src, c)
                    THEN p.src = p.last =>
                           \A i \in DOMAIN ItemsAt(p.src, c) :
                              ItemsAt(p.src, c)[i].tag_name # "" =>
                                 \E u \in protocol_tracking :
                                    /\ u.client = client_string(c)
                                    /\ u.tag = ItemsAt(p.src, c)[i].tag_name
                    ELSE \E e \in Range(p.errors) : e.client = c.id

\* the update passes every test the analysis makes before it asks the
\* inference backend, the age limit of the cycle included
Eligible(u, manual) ==
    /\ should_analyze_update(u)
    /\ analysis_proceeds([u EXCEPT !.ai_summary = ""], manual)

\* the eligible updates cycle p created, and the first max_ai_analyses of
\* them in the order of their creation
EligibleOf(p) ==
    {u \in protocol_tracking : u.id \in p.created /\ Eligible(u, p.origin = "manual")}

FirstEligibleOf(p) ==
    {u.id : u \in {v \in EligibleOf(p) :
                      Cardinality({w \in EligibleOf(p) : w.id < v.id}) < max_ai_analyses}}

\* the updates of cycle p whose analysis was requested from the backend, or
\* is about to be by a task that has not run yet
TriggeredOf(p) ==
    {a.id : a \in {b \in analyses :
                      /\ b.id \in p.created
                      /\ b.state # "skipped"
                      /\ b.state = "spawned" => Eligible(Row(b.id), TRUE)}}

\* C5: of the N eligible updates a cycle creates, exactly the first
\* min(N, 10) in processing order are analysed, whatever other updates the
\* cycle creates.
C5_AnalysisCap ==
    \A k \in DOMAIN polls :
        polls[k].src = polls[k].last =>
            TriggeredOf(polls[k]) = FirstEligibleOf(polls[k])

\* the channel is switched on and has an address
ChannelConfigured(ch) ==
    /\ notification_config.enabled[ch]
    /\ IF ch = "telegram"
       THEN /\ notification_config.telegram_bot_token # ""
            /\ notification_config.telegram_chat_ids # <<>>
       ELSE \/ notification_config.webhook_urls[ch] # <<>>
            \/ notification_config.webhook_url[ch] # ""

SentFor(u) == {x \in sends : x.update = u.id}

ScanPath(s) == IF s.by = "endpoint" THEN "endpoint" ELSE "scanner"

Timeless(rows) == {[x EXCEPT !.indexed_at = 0] : x \in rows}

\* the rows a scan leaves for one version directory
RowsFor(s, pid, key) ==
    {x \in s.after : x.protocol_id = pid /\ x.snapshot_id = key}

\* the version directories scan s indexes for protocol k
Indexable(s, k) ==
    {i \in Slots :
        /\ s.bucket[i].present /\ s.bucket[i].json
        /\ IF ScanPath(s) = "endpoint"
           THEN /\ s.protocol = protocols[k].id
                /\ IsNumeric(DirPool[i].version)
                /\ PathsOf(s.bucket[i]) # {}
                /\ \E q \in Range(prefixes_to_scan(protocols[k])) :
                       Matches(q, DirPool[i].dir)
           ELSE Matches(ScannerPrefix(protocols[k]), DirPool[i].dir)}

KeyOf(s, i) ==
    [dir |-> IF ScanPath(s) = "endpoint" THEN DirPool[i].dir ELSE <<>>,
     version |-> DirPool[i].version]

C8_NoPathsSkipped ==
    \A x \in snapshot_indices : PathsOf(x.snapshot_metadata.manifest) # {}

\* ------------------------------------------------- claims on the lifecycle

\* a start() of the poller has just returned without raising
StartReturned == ret'.n # ret.n /\ ret'.svc = "poller" /\ ret'.op = "start"

\* C11: start() on a stopped poller without a credential (no GitHubConfig row
\* or an empty api_key) returns "error" and changes nothing: is_running stays
\* false, no task is created and poller_enabled is not written. (The database
\* answers the call.)
C11_StartWithoutCredential ==
    [][(/\ StartReturned /\ ret'.status # "raised"
        /\ ~poller.is_running
        /\ (~github_config.exists \/ ~github_config.api_key))
       => /\ ret'.status = "error"
          /\ ~poller'.is_running
          /\ UNCHANGED <<poller, ptasks, github_config>>]_vars

C11_Witness ==
    /\ ret.svc = "poller" /\ ret.op = "start" /\ ret.status = "error"
    /\ github_config.exists /\ ~github_config.api_key
    /\ ~github_config.poller_enabled /\ ~poller.is_running
    /\ \A t \in Tasks : ptasks[t].pc = "none"

\* C12: after every poll_now() cycle, whatever its outcome, a last_poll_time
\* not older than the end of that cycle is persisted.
C12_LastPollTimeAlways ==
    \A k \in DOMAIN polls :
        polls[k].origin = "manual" => github_config.last_poll_time >= polls[k].ended

\* ------------------------------------------------------ claims on analysis

\* the words i, i+1 of the text read "hard fork", or word i reads "hardfork",
\* in any case of letters
HardForkPhraseAt(i) ==
    \/ Lower(text[i]) = "hardfork"
    \/ i < Len(text) /\ Lower(text[i]) = "hard" /\ Lower(text[i + 1]) = "fork"

NumberWords == {"19000000", "#7"}
NumberOf(w) == IF w = "#7" THEN 7 ELSE 19000000

\* the text reads "block <N>" at word j, as a word of its own or as the end
\* of a longer word
BlockNumberAt(j) ==
    /\ j < Len(text)
    /\ Lower(text[j]) \in {"block", "roadblock"}
    /\ text[j + 1] \in NumberWords

\* C13: for a text with a hard-fork phrase followed by "block <N>",
\* detect_hard_fork answers is_hard_fork, coordination_required and, as
\* activation_block, the number of the first "block <N>" of the text, which
\* is N when none stands earlier; is_hard_fork implies coordination_required
\* in every result.
C13_DetectHardFork ==
    hard_fork_info.called =>
        /\ hard_fork_info.is_hard_fork => hard_fork_info.coordination_required
        /\ \A i, j \in DOMAIN text :
              (HardForkPhraseAt(i) /\ i < j /\ BlockNumberAt(j)) =>
                 /\ hard_fork_info.is_hard_fork
                 /\ hard_fork_info.coordination_required
                 /\ \E k \in DOMAIN text :
                       /\ BlockNumberAt(k)
                       /\ \A m \in 1..(k - 1) : ~BlockNumberAt(m)
                       /\ hard_fork_info.activation_block = NumberOf(text[k + 1])
                 /\ (\A m \in 1..(j - 1) : ~BlockNumberAt(m)) =>
                       hard_fork_info.activation_block = NumberOf(text[j + 1])

C13_Witness ==
    /\ text = <<"Hard", "fork", "activation", "Block", "19000000">>
    /\ hard_fork_info.called /\ hard_fork_info.is_hard_fork
    /\ hard_fork_info.activation_block = 19000000
    /\ hard_fork_info.coordination_required

\* ---------------------------------------------------- claims on the tasks

\* the polling-loop tasks that were created and have not terminated
LiveTasks == {t \in Tasks : ptasks[t].pc \notin {"none", "done"}}

\* the ones among them that stop() has not cancelled
RunningTasks == {t \in LiveTasks : ~ptasks[t].cancel}

Overlap(i, j) ==
    /\ i # j /\ polls[i].by # polls[j].by
    /\ polls[i].began <= polls[j].began /\ polls[j].began <= polls[i].ended

\* the rows a step inserts
Inserted == {u \in protocol_tracking' : \A v \in protocol_tracking : v.id # u.id}

SameRelease(u, v) == u.client = v.client /\ u.tag = v.tag

C16_DispatchByOrigin ==
    \A k \in DOMAIN polls :
        \A a \in analyses :
            a.id \in polls[k].created =>
                a.mode = IF polls[k].origin = "manual" THEN "task" ELSE "inline"

\* ------------------------------------------------- claims on the two loops

\* C17: no session of the polling loop is open while the loop is suspended
\* in its interval sleep.
C17_NoSessionAcrossSleep ==
    \A t \in Tasks : ptasks[t].pc = "sleep" => session[t] = "closed"

\* ------------------------------------------------------ claims on analysis

\* C18: once a row carries an analysis, only a requested analysis writes its
\* AI fields again; no analysis triggered by a poll cycle does.
C18_NeverOverwrites ==
    [][\A u \in protocol_tracking : \A v \in protocol_tracking' :
          (u.id = v.id /\ u.ai_summary # "" /\ v.ai_summary # u.ai_summary)
             => v.ai_summary = "explicit"]_vars

\* task t runs the loop test and the check of the persisted flag in this step
IterationOf(t) == ptasks[t].pc = "top" /\ ptasks'[t].pc # "top"

\* C19: when the persisted poller_enabled flag is false while the polling
\* loop is running, the next iteration of the loop starts no cycle, and,
\* unless reading the configuration raises, it ends the loop and sets
\* is_running to false.
C19_ExternalDisableWins ==
    [][\A t \in Tasks :
          (/\ IterationOf(t) /\ poller.is_running
           /\ github_config.exists /\ ~github_config.poller_enabled)
             => /\ ptasks'[t].pc \in {"done", "backoff"}
                /\ run' = run /\ polls' = polls /\ clock' = clock
                /\ ptasks'[t].pc = "done" => ~poller'.is_running]_vars

\* the flag was cleared from outside after start(), no stop() was called, and
\* the loop has ended by itself
C19_Witness ==
    /\ ret.n = 2 /\ ret.svc = "config" /\ ret.op = "update"
    /\ github_config.exists /\ ~github_config.poller_enabled
    /\ ~poller.is_running /\ poller.task # NoTask
    /\ ptasks[poller.task].pc = "done" /\ ~ptasks[poller.task].cancel

\* the cycle that task t ran has just ended with an exception
CycleRaised(t) ==
    /\ Len(polls') = Len(polls) + 1
    /\ polls'[Len(polls')].by = t /\ polls'[Len(polls')].status = "raised"

\* C20: an exception escaping a cycle of the polling loop or an iteration of
\* the scanning loop does not end the loop: the task goes to its error sleep,
\* leaves it only for another iteration or, when cancelled, for its end, and
\* a loop ends only when it is cancelled, finds is_running false or finds its
\* persisted flag off.
C20_LoopSurvivesErrors ==
    [][\A t \in Tasks :
          /\ CycleRaised(t) => ptasks'[t].pc = "backoff"
          /\ (ptasks[t].pc = "backoff" /\ ptasks'[t].pc # "backoff") =>
                ptasks'[t].pc = IF ptasks[t].cancel THEN "done" ELSE "top"
          /\ (ptasks[t].pc # "done" /\ ptasks'[t].pc = "done") =>
                \/ ptasks[t].cancel \/ ~poller.is_running
                \/ ~github_config.exists \/ ~github_config.poller_enabled
          /\ (stasks[t].pc # "done" /\ stasks'[t].pc = "done") =>
                \/ stasks[t].cancel \/ ~scanner.is_running
                \/ ~system_config.exists \/ ~system_config.auto_scan_enabled]_vars

\* a cycle of the loop raised and the same task has run another cycle since
C20_Witness ==
    \E i, j \in DOMAIN polls :
        /\ i < j /\ polls[i].by = polls[j].by /\ polls[i].by \in Tasks
        /\ polls[i].status = "raised" /\ polls[j].began > polls[i].ended
        /\ ptasks[polls[i].by].pc \notin {"none", "done"}

\* the scanning-loop tasks that were created and have not terminated
LiveScanTasks == {t \in Tasks : stasks[t].pc \notin {"none", "done"}}

\* C21: whenever is_running of a service is true, the loop task the service
\* holds has not terminated.
C21_RunningMeansLoop ==
    /\ poller.is_running =>
          poller.task # NoTask /\ poller.task \in LiveTasks
    /\ scanner.is_running =>
          scanner.task # NoTask /\ scanner.task \in LiveScanTasks

\* a loop was cancelled and has ended, and the loop of a later start() runs
C21_Witness ==
    /\ poller.is_running /\ poller.task = 2 /\ 2 \in LiveTasks
    /\ ptasks[1].pc = "done" /\ ptasks[1].cancel

\* --------------------------------------------- claims on the poll cycle

\* the fetch for client c failed in the cycle that saw the source src
FetchFailed(src, c) ==
    LET repo_info == parse_github_url(c.github_url)
        repo == <<repo_info.owner, repo_info.repo>>
    IN /\ repo_info.ok
       /\ repo \notin DOMAIN src \/ src[repo].status # "ok"

\* C22: a failed fetch of a client's releases or tags adds an entry for that
\* client to the errors of the cycle.
C22_FetchErrorListed ==
    \A k \in DOMAIN polls :
        \A i \in DOMAIN polls[k].clients :
            FetchFailed(polls[k].src, clients[polls[k].clients[i]]) =>
                \E e \in DOMAIN polls[k].errors :
                    polls[k].errors[e].client = polls[k].clients[i]

\* --------------------------------------------------- claims on the scans

\* C23: a scan whose insert fails with a uniqueness violation treats that
\* snapshot as existing and goes on with a usable session: every directory it
\* can index has its row when the scan ends.
C23_ViolationSkipsOneItem ==
    \A j \in DOMAIN scans :
        scans[j].by = "raced" =>
            \A k \in DOMAIN protocols :
                \A i \in Indexable(scans[j], k) :
                    RowsFor(scans[j], protocols[k].id, KeyOf(scans[j], i)) # {}

\* the entry that scan s found for directory i of protocol k, where the
\* manifest of the directory has changed since the entry was written
Stale(s, k, i) ==
    {x \in s.before :
        /\ x.protocol_id = protocols[k].id /\ x.snapshot_id = KeyOf(s, i)
        /\ x.index_file_path = i
        /\ x.snapshot_metadata.manifest # s.bucket[i]}

\* C24: when a scan rediscovers a snapshot that is indexed already and whose
\* manifests have changed, the entry carries the newly parsed manifest and
\* the time of this scan afterwards, and no second row exists for its key.
C24_UpdatedInPlace ==
    \A j \in DOMAIN scans : \A k \in DOMAIN protocols :
        \A i \in Indexable(scans[j], k) :
            Stale(scans[j], k, i) # {} =>
                /\ Cardinality(RowsFor(scans[j], protocols[k].id, KeyOf(scans[j], i))) = 1
                /\ \A x \in RowsFor(scans[j], protocols[k].id, KeyOf(scans[j], i)) :
                      /\ x.snapshot_metadata.manifest = scans[j].bucket[i]
                      /\ x.indexed_at = j

\* C25: two version directories with the same version identifier under
\* different first-level directories of one protocol are both indexed, under
\* different keys.
C25_KeyHoldsDirectory ==
    \A j \in DOMAIN scans : \A k \in DOMAIN protocols :
        \A i1, i2 \in Indexable(scans[j], k) :
            (/\ DirPool[i1].version = DirPool[i2].version
             /\ DirPool[i1].dir # DirPool[i2].dir)
            => \E x, y \in scans[j].after :
                  /\ x.protocol_id = protocols[k].id /\ y.protocol_id = protocols[k].id
                  /\ x.index_file_path = i1 /\ y.index_file_path = i2
                  /\ x.snapshot_id # y.snapshot_id

\* C26: a poll cycle processes every tracked client that has a repository
\* URL, however many clients are tracked.
C26_EveryClientPolled ==
    \A k \in DOMAIN polls :
        \A c \in DOMAIN clients :
            clients[c].github_url.host # "" =>
                \E i \in DOMAIN polls[k].clients : polls[k].clients[i] = clients[c].id

\* the cycle of runner r has dealt with the head of a client in this step
ClientHandled(r) == run[r].pc = "client" /\ run'[r] # run[r]

\* C27: for every active client with a parseable repository URL the cycle
\* issues at least one source query.
C27_SourceQueried ==
    [][\A r \in Runners :
          (/\ ClientHandled(r)
           /\ parse_github_url(run[r].active[run[r].ci].github_url).ok)
             => run'[r].pc = "fetch"]_vars

\* C28: the rows a scan adds for a protocol belong to directories under the
\* prefixes chosen for it: its active configured prefixes, else its legacy
\* snapshot_prefix, else the prefix its name gives.
C28_ChosenPrefixes ==
    \A j \in DOMAIN scans : \A k \in DOMAIN protocols :
        \A x \in scans[j].after \ scans[j].before :
            x.protocol_id = protocols[k].id =>
                \E q \in Range(prefixes_to_scan(protocols[k])) :
                    Matches(q, DirPool[x.index_file_path].dir)

\* C29: for every enabled channel with a legacy URL and a URL list, a release
\* that is notified is sent to the legacy URL as well as to each listed URL.
C29_LegacyAndListMerged ==
    \A u \in protocol_tracking :
        (/\ \E k \in DOMAIN polls : u.id \in polls[k].created
         /\ u.date <= SevenDays
         /\ notification_config.exists /\ notification_config.notifications_enabled
         /\ client_notification_settings[u.client_id] # "off")
        => \A ch \in Webhooks :
              notification_config.enabled[ch] =>
                 \A x \in Range(notification_config.webhook_urls[ch])
                          \cup ({notification_config.webhook_url[ch]} \ {""}) :
                     [update |-> u.id, channel |-> ch, url |-> x] \in sends

\* the step in which cycle r has attempted the sends of its current update
Dispatch(r) ==
    /\ run[r].pc = "notify" /\ run'[r].pc # "notify"
    /\ run[r].pending # {} /\ run[r].pending \subseteq sends'

\* C30: a notification is attempted only for a row the dispatching cycle has
\* created itself: every dispatch is the first one for its row, the row is the
\* only one of its (client string, tag), and no step adds a send otherwise.
C30_DispatchOnlyForCreated ==
    [][/\ \A r \in Runners :
             Dispatch(r) =>
                 /\ run[r].cur \in run[r].created
                 /\ run[r].cur \notin handled
                 /\ \A x \in sends : x.update # run[r].cur
                 /\ \A v \in protocol_tracking :
                        SameRelease(v, Row(run[r].cur)) => v.id = run[r].cur
       /\ sends' # sends =>
             \E r \in Runners : Dispatch(r) /\ sends' \ sends \subseteq run[r].pending]_vars

\* a later cycle met the rows of an earlier, notified cycle again and neither
\* created nor notified anything
C30_Witness ==
    \E i, j \in DOMAIN polls :
        /\ i # j /\ polls[i].src = polls[j].src
        /\ polls[i].origin # polls[j].origin
        /\ polls[j].created = {} /\ polls[j].status = "completed"
        /\ \E u \in protocol_tracking :
              /\ u.id \in polls[i].created
              /\ SentFor(u) # {}
              /\ sends = SentFor(u)

====
